---- MODULE Spec2Model ----
(***************************************************************************)
(* Ownership migration of a departing Domo user (transferContent) and its  *)
(* audit log (logTransfers / appendToDataset), modelled from the Code      *)
(* Engine package.  Every handler of transferContent is an asynchronous    *)
(* function: it runs synchronously up to its next await, so one action of  *)
(* the model is the arrival of the response (or of the failure) of the     *)
(* request a handler is waiting for, together with everything the handler  *)
(* does until it sends its next request.                                   *)
(***************************************************************************)
EXTENDS Integers, Sequences, FiniteSets, TLC

VARIABLES
    userId,       \* parameter of transferContent: the departing user
    newOwnerId,   \* parameter of transferContent: the successor
    res,          \* backend: per kind, the resources (index = id)
    h,            \* per handler: position and locals of the async function
    lt,           \* per handler: the activation of logTransfers it awaits
    log,          \* backend: the log dataset, one entry per committed append
    flushes,      \* per handler: the batches it handed to appendToDataset
    calls,        \* per handler: the ownership-mutation requests it issued
    tc            \* state of the promise transferContent returns

vars == <<userId, newOwnerId, res, h, lt, log, flushes, calls, tc>>

-----------------------------------------------------------------------------
(* Bounds of the model *)

\* most resources the backend holds in one run, all kinds together
MaxOwned == 3
\* page size requested by the paginating handlers (the source asks for
\* 30 to 100 items per page)
PageSize == 2
\* most ids handed to one direct call of logTransfers
MaxIds == 125
\* most resources a listing holds when an enumeration loop runs alone
MaxListed == 5
\* most list requests followed in one enumeration loop (some loops never end)
MaxFetches == 6
\* most calls of the operations of the deployment script in one behaviour
MaxRuns == 3

\* periods of the instance
MaxPeriods == 2
\* users named, and most members of one input array, of updateGroupMembers
MaxMembers == 2

(* Program constants *)

BATCH_SIZE == 50

\* const batchSize = 50 of bulkUpdateUsersFromArrays
batchSize == 50

Handlers == {"datasets", "dataflows", "cards", "alerts", "groups",
             "collections", "functions", "publications", "approvals",
             "customApps", "projects", "pages", "appStudio", "accounts"}

SourceUsers == {42}
NewOwners == {99}

Min(a, b) == IF a < b THEN a ELSE b

-----------------------------------------------------------------------------
(* Values *)

\* new Date().toISOString().slice(0, -5): one timestamp per logTransfers call
ISODate == "YYYY-MM-DDTHH:mm:ss"

\* A text is the sequence of its comma-free segments, so that a CSV line is
\* the concatenation of the segments of its values.
NullNotes == <<"null">>
PublicationNotes ==
    <<"Publications cannot be transferred as the new owner must be an owner of all the content">>
ApprovalNotes == <<"Transferring of sent back approvals is not supported">>

\* locals of a handler: pc is the await it is suspended at, ret the place it
\* resumes at when the logTransfers call it awaits returns
Started == [pc |-> "list", ret |-> "", offset |-> 0, items |-> <<>>,
            page |-> <<>>, i |-> 0, got |-> 0, more |-> TRUE]
Returned == [Started EXCEPT !.pc = "done"]
\* transferDataflows awaits getUserName before its loop
Entry(k) == IF k = "dataflows" THEN [Started EXCEPT !.pc = "name"] ELSE Started

Idle == [lines |-> <<>>, next |-> 1, batch |-> <<>>, step |-> "idle"]

-----------------------------------------------------------------------------
(* Backend *)

Ids(k) == [i \in 1..Len(res[k]) |-> i]

\* an owner-filtered listing: the ids whose owner set holds u, in id order
OwnedBy(k, u) == SelectSeq(Ids(k), LAMBDA i : u \in res[k][i].owners)

\* the ids among s whose resource carries the attribute a
WithAttr(k, s, a) == SelectSeq(s, LAMBDA i : res[k][i].attr = a)

\* the slice a listing request with this offset and page size is answered with
Page(s, offset, count) == SubSeq(s, offset + 1, Min(offset + count, Len(s)))

InSeq(x, s) == \E j \in 1..Len(s) : s[j] = x

\* (variant: the new owner is added, the owners before are kept)
SetOwnerKeeping(k, ids, u) ==
    [res EXCEPT ![k] = [i \in 1..Len(res[k]) |->
        IF InSeq(i, ids) THEN [res[k][i] EXCEPT !.owners = @ \cup {u}] ELSE res[k][i]]]

SetOwner(k, ids, u) ==
    [res EXCEPT ![k] = [i \in 1..Len(res[k]) |->
        IF InSeq(i, ids) THEN [res[k][i] EXCEPT !.owners = {u}] ELSE res[k][i]]]

AddOwner(k, ids, u) ==
    [res EXCEPT ![k] = [i \in 1..Len(res[k]) |->
        IF InSeq(i, ids) THEN [res[k][i] EXCEPT !.owners = @ \cup {u}] ELSE res[k][i]]]

RemoveOwner(k, ids, u) ==
    [res EXCEPT ![k] = [i \in 1..Len(res[k]) |->
        IF InSeq(i, ids) THEN [res[k][i] EXCEPT !.owners = @ \ {u}] ELSE res[k][i]]]

-----------------------------------------------------------------------------
(* transferContent: Promise.all over the handlers *)

\* Promise.all rejects with the first handler that rejects and resolves when
\* every handler has returned
Settle(hh) ==
    IF tc # "pending" THEN tc
    ELSE IF \E k \in Handlers : hh[k].pc = "failed" THEN "rejected"
    ELSE IF \A k \in Handlers : hh[k].pc = "done" THEN "resolved"
    ELSE "pending"

\* handler k moves to the locals r
Step(k, r) ==
    /\ h' = [h EXCEPT ![k] = r]
    /\ tc' = Settle([h EXCEPT ![k] = r])

\* an exception leaves the async function: its promise rejects
Throw(k) ==
    /\ Step(k, [h[k] EXCEPT !.pc = "failed"])
    /\ UNCHANGED <<userId, newOwnerId, res, lt, log, flushes, calls>>

\* handleRequest: the answer is returned, the failure is logged and rethrown
handleRequest(k, ok, Then) == IF ok THEN Then ELSE Throw(k)

\* an ownership-mutation request is sent
Issue(k, op, ids) ==
    calls' = [calls EXCEPT ![k] = Append(@, [op |-> op, ids |-> ids])]

-----------------------------------------------------------------------------
(* logTransfers and appendToDataset *)

\* (variant: the two user columns change places)
LineSwapped(type, id, status, notes) ==
    <<newOwnerId, userId, type, id, ISODate, status>> \o notes

Line(type, id, status, notes) ==
    <<userId, newOwnerId, type, id, ISODate, status>> \o notes

Lines(type, ids, status, notes) ==
    [j \in 1..Len(ids) |-> Line(type, ids[j], status, notes)]

\* (variant: the flush happens one line late)
NextBatchLate(lines, from) ==
    SubSeq(lines, from, Min(from + BATCH_SIZE, Len(lines)))

\* the lines the loop pushes from line `from` on until the batch is full
NextBatch(lines, from) ==
    SubSeq(lines, from, Min(from + BATCH_SIZE - 1, Len(lines)))

\* the call runs until its first flush (or returns when there are no ids)
logTransfers(type, ids, status, notes) ==
    LET lines == Lines(type, ids, status, notes)
        first == NextBatch(lines, 1)
    IN  [lines |-> lines, next |-> Len(first) + 1, batch |-> first,
         step |-> IF Len(first) > 0 THEN "upload" ELSE "idle"]

\* (variant: `batch` is one array for all calls: the first flush of a call
\* takes the lines another call is appending along)
CallLogShared(k, type, ids, status, notes) ==
    LET l == logTransfers(type, ids, status, notes)
        others == {x \in DOMAIN lt : x # k /\ lt[x].step # "idle"}
        shared == IF others = {} \/ Len(l.batch) = 0 THEN l.batch
                  ELSE lt[CHOOSE x \in others : TRUE].batch \o l.batch
    IN  /\ lt' = [lt EXCEPT ![k] = [l EXCEPT !.batch = shared]]
        /\ flushes' = [flushes EXCEPT ![k] =
                          IF Len(shared) > 0 THEN Append(@, shared) ELSE @]

\* handler k calls logTransfers: appendToDataset is entered with the first batch
CallLog(k, type, ids, status, notes) ==
    LET l == logTransfers(type, ids, status, notes)
    IN  /\ lt' = [lt EXCEPT ![k] = l]
        /\ flushes' = [flushes EXCEPT ![k] =
                          IF Len(l.batch) > 0 THEN Append(@, l.batch) ELSE @]

\* locals of a handler that awaits logTransfers(.., ids, ..) and resumes at ret
AwaitLog(r, ids, ret) ==
    [r EXCEPT !.pc = IF Len(ids) > 0 THEN "log" ELSE ret, !.ret = ret]

\* (variant: the batch is not emptied after a flush, the next flush hands
\* its lines over again)
AfterFlushKeeping(k) ==
    LET l == lt[k]
        nxt == NextBatch(l.lines, l.next)
    IN  IF Len(nxt) > 0
        THEN /\ lt' = [lt EXCEPT ![k] = [l EXCEPT !.batch = l.batch \o nxt,
                                          !.next = l.next + Len(nxt),
                                          !.step = "upload"]]
             /\ flushes' = [flushes EXCEPT ![k] = Append(@, l.batch \o nxt)]
             /\ UNCHANGED <<h, tc>>
        ELSE /\ lt' = [lt EXCEPT ![k] = [l EXCEPT !.batch = <<>>, !.step = "idle"]]
             /\ Step(k, [h[k] EXCEPT !.pc = h[k].ret])
             /\ UNCHANGED flushes

\* after a flush (appended or caught): the next batch, or the call returns
AfterFlush(k) ==
    LET l == lt[k]
        nxt == NextBatch(l.lines, l.next)
    IN  IF Len(nxt) > 0
        THEN /\ lt' = [lt EXCEPT ![k] = [l EXCEPT !.batch = nxt,
                                          !.next = l.next + Len(nxt),
                                          !.step = "upload"]]
             /\ flushes' = [flushes EXCEPT ![k] = Append(@, nxt)]
             /\ UNCHANGED <<h, tc>>
        ELSE /\ lt' = [lt EXCEPT ![k] = [l EXCEPT !.batch = <<>>, !.step = "idle"]]
             /\ Step(k, [h[k] EXCEPT !.pc = h[k].ret])
             /\ UNCHANGED flushes

\* (variant: the failure of appendToDataset leaves logTransfers)
Rethrown(k) ==
    /\ Step(k, [h[k] EXCEPT !.pc = "failed"])
    /\ UNCHANGED <<lt, flushes>>

\* catch (error) { console.error('Logging failed:', error); }
Caught(k) == AfterFlush(k)

\* POST .../uploads answered
AppendUpload(k, ok) ==
    /\ h[k].pc = "log" /\ lt[k].step = "upload"
    /\ IF ok THEN /\ lt' = [lt EXCEPT ![k].step = "part"]
                  /\ UNCHANGED <<h, tc, flushes>>
             ELSE Caught(k)
    /\ UNCHANGED <<userId, newOwnerId, res, log, calls>>

\* PUT .../parts/1 answered
AppendPart(k, ok) ==
    /\ h[k].pc = "log" /\ lt[k].step = "part"
    /\ IF ok THEN /\ lt' = [lt EXCEPT ![k].step = "commit"]
                  /\ UNCHANGED <<h, tc, flushes>>
             ELSE Caught(k)
    /\ UNCHANGED <<userId, newOwnerId, res, log, calls>>

\* PUT .../commit answered: the batch is appended to the log dataset
AppendCommit(k, ok) ==
    /\ h[k].pc = "log" /\ lt[k].step = "commit"
    /\ IF ok THEN /\ log' = Append(log, lt[k].batch)
                  /\ AfterFlush(k)
             ELSE /\ log' = log
                  /\ Caught(k)
    /\ UNCHANGED <<userId, newOwnerId, res, calls>>

\* a handler whose last statement was the awaited logTransfers returns
Return(k) ==
    /\ h[k].pc = "end"
    /\ Step(k, [h[k] EXCEPT !.pc = "done"])
    /\ UNCHANGED <<userId, newOwnerId, res, lt, log, flushes, calls>>

-----------------------------------------------------------------------------
(* transferDatasets *)

DatasetsList(ok) ==
    LET k == "datasets"
        resp == Page(OwnedBy(k, userId), h[k].offset, PageSize)
        more == Len(resp) > 0 /\ ~(Len(resp) < PageSize)
    IN  /\ h[k].pc = "list"
        /\ handleRequest(k, ok,
             /\ Step(k, [h[k] EXCEPT
                        !.items = @ \o resp,
                        !.offset = IF Len(resp) > 0 THEN @ + PageSize ELSE @,
                        !.pc = IF more THEN "list" ELSE "name"])
             /\ UNCHANGED <<userId, newOwnerId, res, lt, log, flushes, calls>>)

\* getUserName answered; the transfer loop starts
DatasetsName(ok) ==
    LET k == "datasets"
        ids == h[k].items
    IN  /\ h[k].pc = "name"
        /\ handleRequest(k, ok,
             IF Len(ids) > 0
             THEN /\ Step(k, [h[k] EXCEPT !.i = 1, !.pc = "put"])
                  /\ Issue(k, "responsibleUsers", <<ids[1]>>)
                  /\ UNCHANGED <<userId, newOwnerId, res, lt, log, flushes>>
             ELSE /\ Step(k, AwaitLog(h[k], ids, "end"))
                  /\ CallLog(k, "DATA_SOURCE", ids, "TRANSFERRED", NullNotes)
                  /\ UNCHANGED <<userId, newOwnerId, res, log, calls>>)

\* PUT responsibleUsers answered; the tags are computed and posted.  An item
\* with a non-empty tagList has its tagsList filtered, which the item lacks.
DatasetsPut(ok) ==
    LET k == "datasets"
        id == h[k].items[h[k].i]
    IN  /\ h[k].pc = "put"
        /\ handleRequest(k, ok,
             /\ res' = SetOwner(k, <<id>>, newOwnerId)
             /\ Step(k, [h[k] EXCEPT !.pc =
                     IF res[k][id].attr = "tagList" THEN "failed" ELSE "tags"])
             /\ UNCHANGED <<userId, newOwnerId, lt, log, flushes, calls>>)

\* POST tags answered
DatasetsTags(ok) ==
    LET k == "datasets"
        ids == h[k].items
    IN  /\ h[k].pc = "tags"
        /\ handleRequest(k, ok,
             IF h[k].i < Len(ids)
             THEN /\ Step(k, [h[k] EXCEPT !.i = @ + 1, !.pc = "put"])
                  /\ Issue(k, "responsibleUsers", <<ids[h[k].i + 1]>>)
                  /\ UNCHANGED <<userId, newOwnerId, res, lt, log, flushes>>
             ELSE /\ Step(k, AwaitLog(h[k], ids, "end"))
                  /\ CallLog(k, "DATA_SOURCE", ids, "TRANSFERRED", NullNotes)
                  /\ UNCHANGED <<userId, newOwnerId, res, log, calls>>)

-----------------------------------------------------------------------------
(* transferCards *)

CardsList(ok) ==
    LET k == "cards"
        ids == Page(OwnedBy(k, userId), h[k].offset, PageSize)
    IN  /\ h[k].pc = "list"
        /\ handleRequest(k, ok,
             IF Len(ids) > 0
             THEN /\ Step(k, [h[k] EXCEPT !.page = ids, !.got = Len(ids), !.pc = "add"])
                  /\ Issue(k, "owners/add", ids)
                  /\ UNCHANGED <<userId, newOwnerId, res, lt, log, flushes>>
             ELSE /\ Step(k, [h[k] EXCEPT !.pc = "done"])
                  /\ UNCHANGED <<userId, newOwnerId, res, lt, log, flushes, calls>>)

\* (variant: the failure of owners/add is swallowed, owners/remove follows)
CardsAddUnchecked(ok) ==
    LET k == "cards"
    IN  /\ h[k].pc = "add"
        /\ res' = IF ok THEN AddOwner(k, h[k].page, newOwnerId) ELSE res
        /\ Step(k, [h[k] EXCEPT !.pc = "remove"])
        /\ Issue(k, "owners/remove", h[k].page)
        /\ UNCHANGED <<userId, newOwnerId, lt, log, flushes>>

\* POST cards/owners/add answered: POST cards/owners/remove is sent
CardsAdd(ok) ==
    LET k == "cards"
    IN  /\ h[k].pc = "add"
        /\ handleRequest(k, ok,
             /\ res' = AddOwner(k, h[k].page, newOwnerId)
             /\ Step(k, [h[k] EXCEPT !.pc = "remove"])
             /\ Issue(k, "owners/remove", h[k].page)
             /\ UNCHANGED <<userId, newOwnerId, lt, log, flushes>>)

CardsRemove(ok) ==
    LET k == "cards"
    IN  /\ h[k].pc = "remove"
        /\ handleRequest(k, ok,
             /\ res' = RemoveOwner(k, h[k].page, userId)
             /\ Step(k, AwaitLog(h[k], h[k].page, "next"))
             /\ CallLog(k, "CARD", h[k].page, "TRANSFERRED", NullNotes)
             /\ UNCHANGED <<userId, newOwnerId, log, calls>>)

\* logTransfers returned: the offset advances and the loop condition is read
CardsNext ==
    LET k == "cards"
    IN  /\ h[k].pc = "next"
        /\ Step(k, [h[k] EXCEPT !.offset = @ + PageSize,
                                !.pc = IF h[k].got < PageSize THEN "done" ELSE "list"])
        /\ UNCHANGED <<userId, newOwnerId, res, lt, log, flushes, calls>>

-----------------------------------------------------------------------------
(* transferAlerts *)

AlertsList(ok) ==
    LET k == "alerts"
        resp == Page(OwnedBy(k, userId), h[k].offset, PageSize)
        more == Len(resp) > 0 /\ ~(Len(resp) < PageSize)
        alerts == h[k].items \o resp
    IN  /\ h[k].pc = "list"
        /\ handleRequest(k, ok,
             IF more
             THEN /\ Step(k, [h[k] EXCEPT !.items = alerts, !.offset = @ + PageSize])
                  /\ UNCHANGED <<userId, newOwnerId, res, lt, log, flushes, calls>>
             ELSE IF Len(alerts) > 0
             THEN /\ Step(k, [h[k] EXCEPT !.items = alerts, !.i = 1, !.pc = "patch",
                                !.offset = IF Len(resp) > 0 THEN @ + PageSize ELSE @])
                  /\ Issue(k, "alerts", <<alerts[1]>>)
                  /\ UNCHANGED <<userId, newOwnerId, res, lt, log, flushes>>
             ELSE /\ Step(k, AwaitLog(h[k], alerts, "end"))
                  /\ CallLog(k, "ALERT", alerts, "TRANSFERRED", NullNotes)
                  /\ UNCHANGED <<userId, newOwnerId, res, log, calls>>)

\* PATCH alerts/{id} answered
AlertsPatch(ok) ==
    LET k == "alerts"
        alerts == h[k].items
    IN  /\ h[k].pc = "patch"
        /\ handleRequest(k, ok,
             /\ res' = SetOwner(k, <<alerts[h[k].i]>>, newOwnerId)
             /\ IF h[k].i < Len(alerts)
                THEN /\ Step(k, [h[k] EXCEPT !.i = @ + 1])
                     /\ Issue(k, "alerts", <<alerts[h[k].i + 1]>>)
                     /\ UNCHANGED <<userId, newOwnerId, lt, log, flushes>>
                ELSE /\ Step(k, AwaitLog(h[k], alerts, "end"))
                     /\ CallLog(k, "ALERT", alerts, "TRANSFERRED", NullNotes)
                     /\ UNCHANGED <<userId, newOwnerId, log, calls>>)

-----------------------------------------------------------------------------
(* transferGroups *)

\* offset += limit; if (response.length < limit) moreData = false
GroupsAdvance(r) ==
    [r EXCEPT !.offset = @ + PageSize,
              !.pc = IF r.got < PageSize THEN "done" ELSE "list"]

GroupsList(ok) ==
    LET k == "groups"
        resp == Page(OwnedBy(k, userId), h[k].offset, PageSize)
        groupIds == SelectSeq(resp, LAMBDA g : userId \in res[k][g].owners)
    IN  /\ h[k].pc = "list"
        /\ handleRequest(k, ok,
             IF Len(resp) > 0 /\ Len(groupIds) > 0
             THEN /\ Step(k, [h[k] EXCEPT !.page = groupIds, !.got = Len(resp),
                                          !.pc = "access"])
                  /\ Issue(k, "groups/access", groupIds)
                  /\ UNCHANGED <<userId, newOwnerId, res, lt, log, flushes>>
             ELSE /\ Step(k, IF Len(resp) > 0
                             THEN GroupsAdvance([h[k] EXCEPT !.got = Len(resp)])
                             ELSE [h[k] EXCEPT !.pc = "done"])
                  /\ UNCHANGED <<userId, newOwnerId, res, lt, log, flushes, calls>>)

\* PUT groups/access answered: addOwners and removeOwners of one request
GroupsAccess(ok) ==
    LET k == "groups"
    IN  /\ h[k].pc = "access"
        /\ handleRequest(k, ok,
             /\ res' = [res EXCEPT ![k] = [i \in 1..Len(res[k]) |->
                           IF InSeq(i, h[k].page)
                           THEN [res[k][i] EXCEPT !.owners = (@ \ {userId}) \cup {newOwnerId}]
                           ELSE res[k][i]]]
             /\ Step(k, AwaitLog(h[k], h[k].page, "next"))
             /\ CallLog(k, "GROUP", h[k].page, "TRANSFERRED", NullNotes)
             /\ UNCHANGED <<userId, newOwnerId, log, calls>>)

GroupsNext ==
    LET k == "groups"
    IN  /\ h[k].pc = "next"
        /\ Step(k, GroupsAdvance(h[k]))
        /\ UNCHANGED <<userId, newOwnerId, res, lt, log, flushes, calls>>

-----------------------------------------------------------------------------
(* transferFunctions *)

FunctionsList(ok) ==
    LET k == "functions"
        all == OwnedBy(k, userId)
        results == Page(all, h[k].offset, PageSize)
        hasMore == h[k].offset + PageSize < Len(all)
        beastModes == WithAttr(k, results, "beastMode")
    IN  /\ h[k].pc = "list"
        /\ handleRequest(k, ok,
             IF Len(results) > 0
             THEN /\ Step(k, [h[k] EXCEPT !.page = results, !.got = Len(results),
                                          !.more = hasMore, !.pc = "beastModes"])
                  /\ Issue(k, "functions/bulk/template", beastModes)
                  /\ UNCHANGED <<userId, newOwnerId, res, lt, log, flushes>>
             ELSE /\ Step(k, [h[k] EXCEPT !.pc = "done"])
                  /\ UNCHANGED <<userId, newOwnerId, res, lt, log, flushes, calls>>)

\* POST bulk/template {update: beastModes} answered
FunctionsBeastModes(ok) ==
    LET k == "functions"
        beastModes == WithAttr(k, h[k].page, "beastMode")
    IN  /\ h[k].pc = "beastModes"
        /\ handleRequest(k, ok,
             /\ res' = SetOwner(k, beastModes, newOwnerId)
             /\ Step(k, AwaitLog(h[k], beastModes, "logged"))
             /\ CallLog(k, "BEAST_MODE_FORMULA", beastModes, "TRANSFERRED", NullNotes)
             /\ UNCHANGED <<userId, newOwnerId, log, calls>>)

\* the beast modes are logged: POST bulk/template {update: variables} is sent
FunctionsLogged ==
    LET k == "functions"
    IN  /\ h[k].pc = "logged"
        /\ Step(k, [h[k] EXCEPT !.pc = "variables"])
        /\ Issue(k, "functions/bulk/template", WithAttr(k, h[k].page, "variable"))
        /\ UNCHANGED <<userId, newOwnerId, res, lt, log, flushes>>

FunctionsVariables(ok) ==
    LET k == "functions"
        variables == WithAttr(k, h[k].page, "variable")
    IN  /\ h[k].pc = "variables"
        /\ handleRequest(k, ok,
             /\ res' = SetOwner(k, variables, newOwnerId)
             /\ Step(k, AwaitLog(h[k], variables, "next"))
             /\ CallLog(k, "VARIABLE", variables, "TRANSFERRED", NullNotes)
             /\ UNCHANGED <<userId, newOwnerId, log, calls>>)

\* offset += limit; moreData = response.hasMore
FunctionsNext ==
    LET k == "functions"
    IN  /\ h[k].pc = "next"
        /\ Step(k, [h[k] EXCEPT !.offset = @ + PageSize,
                                !.pc = IF h[k].more THEN "list" ELSE "done"])
        /\ UNCHANGED <<userId, newOwnerId, res, lt, log, flushes, calls>>

-----------------------------------------------------------------------------
(* getPublications *)

\* GET publications answered with every publication of the instance
PublicationsList(ok) ==
    LET k == "publications"
        response == Ids(k)
    IN  /\ h[k].pc = "list"
        /\ handleRequest(k, ok,
             IF Len(response) > 0
             THEN /\ Step(k, [h[k] EXCEPT !.page = response, !.i = 1, !.pc = "detail"])
                  /\ UNCHANGED <<userId, newOwnerId, res, lt, log, flushes, calls>>
             ELSE /\ Step(k, AwaitLog(h[k], <<>>, "end"))
                  /\ CallLog(k, "PUBLICATION", <<>>, "NOT_TRANSFERRED", PublicationNotes)
                  /\ UNCHANGED <<userId, newOwnerId, res, log, calls>>)

\* GET publications/{id} answered
PublicationsDetail(ok) ==
    LET k == "publications"
        id == h[k].page[h[k].i]
        publications == IF userId \in res[k][id].owners
                        THEN Append(h[k].items, id) ELSE h[k].items
    IN  /\ h[k].pc = "detail"
        /\ handleRequest(k, ok,
             IF h[k].i < Len(h[k].page)
             THEN /\ Step(k, [h[k] EXCEPT !.items = publications, !.i = @ + 1])
                  /\ UNCHANGED <<userId, newOwnerId, res, lt, log, flushes, calls>>
             ELSE /\ Step(k, AwaitLog([h[k] EXCEPT !.items = publications],
                                      publications, "end"))
                  /\ CallLog(k, "PUBLICATION", publications, "NOT_TRANSFERRED",
                             PublicationNotes)
                  /\ UNCHANGED <<userId, newOwnerId, res, log, calls>>)

-----------------------------------------------------------------------------
(* transferApprovals *)

\* POST graphql getFilteredRequests answered
ApprovalsList(ok) ==
    LET k == "approvals"
        responseApprovals == OwnedBy(k, userId)
        pendingApprovals == WithAttr(k, responseApprovals, "PENDING")
    IN  /\ h[k].pc = "list"
        /\ handleRequest(k, ok,
             IF Len(pendingApprovals) > 0
             THEN /\ Step(k, [h[k] EXCEPT !.page = responseApprovals,
                                !.items = pendingApprovals, !.i = 1, !.pc = "replace"])
                  /\ Issue(k, "replaceApprovers", <<pendingApprovals[1]>>)
                  /\ UNCHANGED <<userId, newOwnerId, res, lt, log, flushes>>
             ELSE /\ Step(k, AwaitLog([h[k] EXCEPT !.page = responseApprovals],
                                      pendingApprovals, "logged"))
                  /\ CallLog(k, "APPROVAL", pendingApprovals, "TRANSFERRED", NullNotes)
                  /\ UNCHANGED <<userId, newOwnerId, res, log, calls>>)

\* POST graphql replaceApprovers answered
ApprovalsReplace(ok) ==
    LET k == "approvals"
        pendingApprovals == h[k].items
    IN  /\ h[k].pc = "replace"
        /\ handleRequest(k, ok,
             /\ res' = SetOwner(k, <<pendingApprovals[h[k].i]>>, newOwnerId)
             /\ IF h[k].i < Len(pendingApprovals)
                THEN /\ Step(k, [h[k] EXCEPT !.i = @ + 1])
                     /\ Issue(k, "replaceApprovers", <<pendingApprovals[h[k].i + 1]>>)
                     /\ UNCHANGED <<userId, newOwnerId, lt, log, flushes>>
                ELSE /\ Step(k, AwaitLog(h[k], pendingApprovals, "logged"))
                     /\ CallLog(k, "APPROVAL", pendingApprovals, "TRANSFERRED", NullNotes)
                     /\ UNCHANGED <<userId, newOwnerId, log, calls>>)

\* the pending approvals are logged: the sent-back ones are logged
ApprovalsLogged ==
    LET k == "approvals"
        sentBackApprovals == WithAttr(k, h[k].page, "SENTBACK")
    IN  /\ h[k].pc = "logged"
        /\ Step(k, AwaitLog(h[k], sentBackApprovals, "end"))
        /\ CallLog(k, "APPROVAL", sentBackApprovals, "NOT_TRANSFERRED", ApprovalNotes)
        /\ UNCHANGED <<userId, newOwnerId, res, log, calls>>

-----------------------------------------------------------------------------
(* transferProjectsAndTasks *)

\* GET users/{userId}/projects answered.  The loop reads response.length and
\* spreads response.projects: an array answer has no projects property (a
\* non-empty one throws), an object answer has no length (the loop ends), so
\* `projects` stays empty and the loop over it has no iteration.
ProjectsList(ok, shape) ==
    LET k == "projects"
        response == Page(OwnedBy(k, userId), h[k].offset, PageSize)
    IN  /\ h[k].pc = "list"
        /\ handleRequest(k, ok,
             IF shape = "array" /\ Len(response) > 0
             THEN Throw(k)
             ELSE /\ Step(k, AwaitLog(h[k], <<>>, "logged"))
                  /\ CallLog(k, "PROJECT_TASK", <<>>, "TRANSFERRED", NullNotes)
                  /\ UNCHANGED <<userId, newOwnerId, res, log, calls>>)

\* the tasks are logged: the projects are logged
ProjectsLogged ==
    LET k == "projects"
    IN  /\ h[k].pc = "logged"
        /\ Step(k, AwaitLog(h[k], <<>>, "end"))
        /\ CallLog(k, "PROJECT", <<>>, "TRANSFERRED", NullNotes)
        /\ UNCHANGED <<userId, newOwnerId, res, log, calls>>

-----------------------------------------------------------------------------
(* transferDataflows *)

\* getUserName answered: the first search is sent
DataflowsName(ok) ==
    LET k == "dataflows"
    IN  /\ h[k].pc = "name"
        /\ handleRequest(k, ok,
             /\ Step(k, [h[k] EXCEPT !.pc = "list"])
             /\ UNCHANGED <<userId, newOwnerId, res, lt, log, flushes, calls>>)

\* POST search answered.  `dataflows.tags` is read on the array of the page,
\* so tags is [] and no tag is removed; the ids are logged before the owner
\* is updated.
DataflowsList(ok) ==
    LET k == "dataflows"
        ids == Page(OwnedBy(k, userId), h[k].offset, PageSize)
    IN  /\ h[k].pc = "list"
        /\ handleRequest(k, ok,
             IF Len(ids) > 0
             THEN /\ Step(k, AwaitLog([h[k] EXCEPT !.page = ids, !.got = Len(ids)],
                                      ids, "logged"))
                  /\ CallLog(k, "DATAFLOW_TYPE", ids, "TRANSFERRED", NullNotes)
                  /\ UNCHANGED <<userId, newOwnerId, res, log, calls>>
             ELSE /\ Step(k, [h[k] EXCEPT !.pc = "done"])
                  /\ UNCHANGED <<userId, newOwnerId, res, lt, log, flushes, calls>>)

\* logTransfers returned: PUT dataflows/bulk/patch is sent
DataflowsLogged ==
    LET k == "dataflows"
    IN  /\ h[k].pc = "logged"
        /\ Step(k, [h[k] EXCEPT !.pc = "patch"])
        /\ Issue(k, "dataflows/bulk/patch", h[k].page)
        /\ UNCHANGED <<userId, newOwnerId, res, lt, log, flushes>>

\* PUT dataflows/bulk/patch answered: PUT dataflows/bulk/tag is sent
DataflowsPatch(ok) ==
    LET k == "dataflows"
    IN  /\ h[k].pc = "patch"
        /\ handleRequest(k, ok,
             /\ res' = SetOwner(k, h[k].page, newOwnerId)
             /\ Step(k, [h[k] EXCEPT !.pc = "tag"])
             /\ UNCHANGED <<userId, newOwnerId, lt, log, flushes, calls>>)

\* PUT dataflows/bulk/tag answered: the offset advances
DataflowsTag(ok) ==
    LET k == "dataflows"
    IN  /\ h[k].pc = "tag"
        /\ handleRequest(k, ok,
             /\ Step(k, [h[k] EXCEPT !.offset = @ + PageSize,
                            !.pc = IF h[k].got < PageSize THEN "done" ELSE "list"])
             /\ UNCHANGED <<userId, newOwnerId, res, lt, log, flushes, calls>>)

-----------------------------------------------------------------------------
(* transferAppDbCollections *)

\* POST collections/query answered (pageNumber is offset / pageSize + 1)
CollectionsList(ok) ==
    LET k == "collections"
        collections == Page(OwnedBy(k, userId), h[k].offset, PageSize)
    IN  /\ h[k].pc = "list"
        /\ handleRequest(k, ok,
             IF Len(collections) > 0
             THEN /\ Step(k, [h[k] EXCEPT !.page = collections, !.i = 1, !.pc = "put"])
                  /\ Issue(k, "collections", <<collections[1]>>)
                  /\ UNCHANGED <<userId, newOwnerId, res, lt, log, flushes>>
             ELSE /\ Step(k, [h[k] EXCEPT !.pc = "done"])
                  /\ UNCHANGED <<userId, newOwnerId, res, lt, log, flushes, calls>>)

\* PUT collections/{id} answered.  After the last one the argument of
\* logTransfers is response.map(...): response is the object that holds
\* `collections`, it has no map, and the TypeError leaves the handler.
CollectionsPut(ok) ==
    LET k == "collections"
    IN  /\ h[k].pc = "put"
        /\ handleRequest(k, ok,
             /\ res' = SetOwner(k, <<h[k].page[h[k].i]>>, newOwnerId)
             /\ IF h[k].i < Len(h[k].page)
                THEN /\ Step(k, [h[k] EXCEPT !.i = @ + 1])
                     /\ Issue(k, "collections", <<h[k].page[h[k].i + 1]>>)
                     /\ UNCHANGED <<userId, newOwnerId, lt, log, flushes>>
                ELSE /\ Step(k, [h[k] EXCEPT !.pc = "failed"])
                     /\ UNCHANGED <<userId, newOwnerId, lt, log, flushes, calls>>)

-----------------------------------------------------------------------------
(* transferCustomApps *)

\* (variant: the owner of a design is not looked at)
NextListed(page, from) == IF from <= Len(page) THEN from ELSE 0

\* the first index from `from` on of a design of the page owned by the user
\* (0: none)
NextOwned(page, from) ==
    LET own == {i \in from..Len(page) : userId \in res["customApps"][page[i]].owners}
    IN  IF own = {} THEN 0 ELSE CHOOSE i \in own : \A j \in own : i <= j

\* GET designs answered.  The url carries the offset and, `&${limit}&` being
\* no parameter, no limit: the backend is taken to answer with pages of the
\* size the loop assumes.  The designs are those of every owner.
CustomAppsList(ok) ==
    LET k == "customApps"
        response == Page(Ids(k), h[k].offset, PageSize)
        first == NextOwned(response, 1)
    IN  /\ h[k].pc = "list"
        /\ handleRequest(k, ok,
             IF Len(response) > 0
             THEN IF first > 0
                  THEN /\ Step(k, [h[k] EXCEPT !.page = response, !.got = Len(response),
                                     !.i = first, !.pc = "grant",
                                     !.items = Append(@, response[first])])
                       /\ Issue(k, "permissions/ADMIN", <<response[first]>>)
                       /\ UNCHANGED <<userId, newOwnerId, res, lt, log, flushes>>
                  ELSE /\ Step(k, AwaitLog([h[k] EXCEPT !.page = response,
                                               !.got = Len(response)],
                                           h[k].items, "next"))
                       /\ CallLog(k, "APP", h[k].items, "TRANSFERRED", NullNotes)
                       /\ UNCHANGED <<userId, newOwnerId, res, log, calls>>
             ELSE /\ Step(k, [h[k] EXCEPT !.pc = "done"])
                  /\ UNCHANGED <<userId, newOwnerId, res, lt, log, flushes, calls>>)

\* POST designs/{id}/permissions/ADMIN answered: the next design of the user,
\* or logTransfers with appIds, which holds the ids of every page so far
CustomAppsGrant(ok) ==
    LET k == "customApps"
        nxt == NextOwned(h[k].page, h[k].i + 1)
    IN  /\ h[k].pc = "grant"
        /\ handleRequest(k, ok,
             /\ res' = AddOwner(k, <<h[k].page[h[k].i]>>, newOwnerId)
             /\ IF nxt > 0
                THEN /\ Step(k, [h[k] EXCEPT !.i = nxt,
                                   !.items = Append(@, h[k].page[nxt])])
                     /\ Issue(k, "permissions/ADMIN", <<h[k].page[nxt]>>)
                     /\ UNCHANGED <<userId, newOwnerId, lt, log, flushes>>
                ELSE /\ Step(k, AwaitLog(h[k], h[k].items, "next"))
                     /\ CallLog(k, "APP", h[k].items, "TRANSFERRED", NullNotes)
                     /\ UNCHANGED <<userId, newOwnerId, log, calls>>)

\* logTransfers returned: the loop condition is read and the offset advances
CustomAppsNext ==
    LET k == "customApps"
    IN  /\ h[k].pc = "next"
        /\ Step(k, [h[k] EXCEPT !.offset = @ + PageSize,
                                !.pc = IF h[k].got < PageSize THEN "done" ELSE "list"])
        /\ UNCHANGED <<userId, newOwnerId, res, lt, log, flushes, calls>>

-----------------------------------------------------------------------------
(* transferPages *)

\* POST search/v1/query (pages owned by the user) answered: the loop over
\* the ids of the page of results sends its first PUT bulk/owners
PagesList(ok) ==
    LET k == "pages"
        pages == Page(OwnedBy(k, userId), h[k].offset, PageSize)
    IN  /\ h[k].pc = "list"
        /\ handleRequest(k, ok,
             IF Len(pages) > 0
             THEN /\ Step(k, [h[k] EXCEPT !.page = pages, !.got = Len(pages),
                                          !.i = 1, !.pc = "add"])
                  /\ Issue(k, "pages/bulk/owners", pages)
                  /\ UNCHANGED <<userId, newOwnerId, res, lt, log, flushes>>
             ELSE /\ Step(k, [h[k] EXCEPT !.pc = "done"])
                  /\ UNCHANGED <<userId, newOwnerId, res, lt, log, flushes, calls>>)

\* PUT pages/bulk/owners answered
PagesAdd(ok) ==
    LET k == "pages"
    IN  /\ h[k].pc = "add"
        /\ handleRequest(k, ok,
             /\ res' = AddOwner(k, h[k].page, newOwnerId)
             /\ Step(k, [h[k] EXCEPT !.pc = "remove"])
             /\ Issue(k, "pages/bulk/owners/remove", h[k].page)
             /\ UNCHANGED <<userId, newOwnerId, lt, log, flushes>>)

\* POST pages/bulk/owners/remove answered: the body of the for loop has run
\* once more; it runs pages.length times, each time with pageIds: pages
PagesRemove(ok) ==
    LET k == "pages"
    IN  /\ h[k].pc = "remove"
        /\ handleRequest(k, ok,
             /\ res' = RemoveOwner(k, h[k].page, userId)
             /\ IF h[k].i < Len(h[k].page)
                THEN /\ Step(k, [h[k] EXCEPT !.i = @ + 1, !.pc = "add"])
                     /\ Issue(k, "pages/bulk/owners", h[k].page)
                     /\ UNCHANGED <<userId, newOwnerId, lt, log, flushes>>
                ELSE /\ Step(k, AwaitLog(h[k], h[k].page, "next"))
                     /\ CallLog(k, "PAGE", h[k].page, "TRANSFERRED", NullNotes)
                     /\ UNCHANGED <<userId, newOwnerId, log, calls>>)

PagesNext ==
    LET k == "pages"
    IN  /\ h[k].pc = "next"
        /\ Step(k, [h[k] EXCEPT !.offset = @ + PageSize,
                                !.pc = IF h[k].got < PageSize THEN "done" ELSE "list"])
        /\ UNCHANGED <<userId, newOwnerId, res, lt, log, flushes, calls>>

-----------------------------------------------------------------------------
(* transferAppStudioApps *)

\* skip += limit; if (dataAppAdminSummaries.length < limit) moreData = false
AppStudioAdvance(r) ==
    [r EXCEPT !.offset = @ + PageSize,
              !.pc = IF r.got < PageSize THEN "done" ELSE "list"]

\* POST dataapps/adminsummary answered with a page of the apps of the
\* instance; those the user owns are kept
AppStudioList(ok) ==
    LET k == "appStudio"
        summaries == Page(Ids(k), h[k].offset, PageSize)
        apps == SelectSeq(summaries, LAMBDA a : userId \in res[k][a].owners)
    IN  /\ h[k].pc = "list"
        /\ handleRequest(k, ok,
             IF Len(summaries) > 0 /\ Len(apps) > 0
             THEN /\ Step(k, [h[k] EXCEPT !.page = apps, !.got = Len(summaries),
                                          !.pc = "add"])
                  /\ Issue(k, "dataapps/bulk/owners", apps)
                  /\ UNCHANGED <<userId, newOwnerId, res, lt, log, flushes>>
             ELSE /\ Step(k, IF Len(summaries) > 0
                             THEN AppStudioAdvance([h[k] EXCEPT !.got = Len(summaries)])
                             ELSE [h[k] EXCEPT !.pc = "done"])
                  /\ UNCHANGED <<userId, newOwnerId, res, lt, log, flushes, calls>>)

\* PUT dataapps/bulk/owners answered
AppStudioAdd(ok) ==
    LET k == "appStudio"
    IN  /\ h[k].pc = "add"
        /\ handleRequest(k, ok,
             /\ res' = AddOwner(k, h[k].page, newOwnerId)
             /\ Step(k, [h[k] EXCEPT !.pc = "remove"])
             /\ Issue(k, "dataapps/bulk/owners/remove", h[k].page)
             /\ UNCHANGED <<userId, newOwnerId, lt, log, flushes>>)

\* (variant: the rows of the apps carry the tag of the custom apps)
AppStudioRemoveAsApp(ok) ==
    LET k == "appStudio"
    IN  /\ h[k].pc = "remove"
        /\ handleRequest(k, ok,
             /\ res' = RemoveOwner(k, h[k].page, userId)
             /\ Step(k, AwaitLog(h[k], h[k].page, "next"))
             /\ CallLog(k, "APP", h[k].page, "TRANSFERRED", NullNotes)
             /\ UNCHANGED <<userId, newOwnerId, log, calls>>)

\* PUT dataapps/bulk/owners/remove answered
AppStudioRemove(ok) ==
    LET k == "appStudio"
    IN  /\ h[k].pc = "remove"
        /\ handleRequest(k, ok,
             /\ res' = RemoveOwner(k, h[k].page, userId)
             /\ Step(k, AwaitLog(h[k], h[k].page, "next"))
             /\ CallLog(k, "DATA_APP", h[k].page, "TRANSFERRED", NullNotes)
             /\ UNCHANGED <<userId, newOwnerId, log, calls>>)

AppStudioNext ==
    LET k == "appStudio"
    IN  /\ h[k].pc = "next"
        /\ Step(k, AppStudioAdvance(h[k]))
        /\ UNCHANGED <<userId, newOwnerId, res, lt, log, flushes, calls>>

-----------------------------------------------------------------------------
(* transferAccounts *)

\* POST search/v1/query (accounts owned by the user) answered; after the
\* last page the transfer loop sends its first PUT accounts/share/{id}
AccountsList(ok) ==
    LET k == "accounts"
        resp == Page(OwnedBy(k, userId), h[k].offset, PageSize)
        more == Len(resp) > 0 /\ ~(Len(resp) < PageSize)
        accountIds == h[k].items \o resp
    IN  /\ h[k].pc = "list"
        /\ handleRequest(k, ok,
             IF more
             THEN /\ Step(k, [h[k] EXCEPT !.items = accountIds, !.offset = @ + PageSize])
                  /\ UNCHANGED <<userId, newOwnerId, res, lt, log, flushes, calls>>
             ELSE IF Len(accountIds) > 0
             THEN /\ Step(k, [h[k] EXCEPT !.items = accountIds, !.i = 1, !.pc = "add",
                                !.offset = IF Len(resp) > 0 THEN @ + PageSize ELSE @])
                  /\ Issue(k, "accounts/share/OWNER", <<accountIds[1]>>)
                  /\ UNCHANGED <<userId, newOwnerId, res, lt, log, flushes>>
             ELSE /\ Step(k, AwaitLog(h[k], accountIds, "end"))
                  /\ CallLog(k, "ACCOUNT", accountIds, "TRANSFERRED", NullNotes)
                  /\ UNCHANGED <<userId, newOwnerId, res, log, calls>>)

\* PUT accounts/share/{id} {id: newOwnerId, accessLevel: 'OWNER'} answered
AccountsAdd(ok) ==
    LET k == "accounts"
        id == h[k].items[h[k].i]
    IN  /\ h[k].pc = "add"
        /\ handleRequest(k, ok,
             /\ res' = AddOwner(k, <<id>>, newOwnerId)
             /\ Step(k, [h[k] EXCEPT !.pc = "remove"])
             /\ Issue(k, "accounts/share/NONE", <<id>>)
             /\ UNCHANGED <<userId, newOwnerId, lt, log, flushes>>)

\* PUT accounts/share/{id} {id: userId, accessLevel: 'NONE'} answered
AccountsRemove(ok) ==
    LET k == "accounts"
        accountIds == h[k].items
    IN  /\ h[k].pc = "remove"
        /\ handleRequest(k, ok,
             /\ res' = RemoveOwner(k, <<accountIds[h[k].i]>>, userId)
             /\ IF h[k].i < Len(accountIds)
                THEN /\ Step(k, [h[k] EXCEPT !.i = @ + 1, !.pc = "add"])
                     /\ Issue(k, "accounts/share/OWNER", <<accountIds[h[k].i + 1]>>)
                     /\ UNCHANGED <<userId, newOwnerId, lt, log, flushes>>
                ELSE /\ Step(k, AwaitLog(h[k], accountIds, "end"))
                     /\ CallLog(k, "ACCOUNT", accountIds, "TRANSFERRED", NullNotes)
                     /\ UNCHANGED <<userId, newOwnerId, log, calls>>)

-----------------------------------------------------------------------------
(* Specification: one run of transferContent *)

Attrs(k) ==
    CASE k = "datasets" -> {"none", "tagList"}
      [] k = "functions" -> {"beastMode", "variable"}
      [] k = "approvals" -> {"PENDING", "SENTBACK"}
      [] OTHER -> {"-"}

\* the resources of kind k at the start: up to MaxOwned, all owned by u
Owned(k, u) ==
    UNION {[1..n -> [owners : {{u}}, attr : Attrs(k)]] : n \in 0..MaxOwned}

Total(r, S) ==
    LET RECURSIVE Sum(_)
        Sum(T) == IF T = {} THEN 0
                  ELSE LET k == CHOOSE x \in T : TRUE
                       IN  Len(r[k]) + Sum(T \ {k})
    IN  Sum(S)

\* A run is followed for the handlers of one or two kinds; the handlers of
\* the other kinds are taken in the state they reach when their kind holds
\* nothing for the user and their requests were answered first.
Watched == {{a, b} : a, b \in Handlers}

\* transferContent(userId, newOwnerId) is called with a new owner of `owners`
TransferContentCalled(owners) ==
    /\ userId \in SourceUsers
    /\ newOwnerId \in owners
    /\ \E watched \in Watched :
        /\ \E r \in [watched -> UNION {Owned(k, userId) : k \in watched}] :
            /\ \A k \in watched : r[k] \in Owned(k, userId)
            /\ Total(r, watched) <= MaxOwned
            /\ res = [k \in Handlers |-> IF k \in watched THEN r[k] ELSE <<>>]
        /\ h = [k \in Handlers |-> IF k \in watched THEN Entry(k) ELSE Returned]
    /\ lt = [k \in Handlers |-> Idle]
    /\ log = <<>>
    /\ flushes = [k \in Handlers |-> <<>>]
    /\ calls = [k \in Handlers |-> <<>>]
    /\ tc = "pending"

Init == TransferContentCalled(NewOwners)

Next ==
    \/ \E k \in Handlers, ok \in BOOLEAN : AppendUpload(k, ok)
    \/ \E k \in Handlers, ok \in BOOLEAN : AppendPart(k, ok)
    \/ \E k \in Handlers, ok \in BOOLEAN : AppendCommit(k, ok)
    \/ \E k \in Handlers : Return(k)
    \/ \E ok \in BOOLEAN : DatasetsList(ok)
    \/ \E ok \in BOOLEAN : DatasetsName(ok)
    \/ \E ok \in BOOLEAN : DatasetsPut(ok)
    \/ \E ok \in BOOLEAN : DatasetsTags(ok)
    \/ \E ok \in BOOLEAN : CardsList(ok)
    \/ \E ok \in BOOLEAN : CardsAdd(ok)
    \/ \E ok \in BOOLEAN : CardsRemove(ok)
    \/ CardsNext
    \/ \E ok \in BOOLEAN : AlertsList(ok)
    \/ \E ok \in BOOLEAN : AlertsPatch(ok)
    \/ \E ok \in BOOLEAN : GroupsList(ok)
    \/ \E ok \in BOOLEAN : GroupsAccess(ok)
    \/ GroupsNext
    \/ \E ok \in BOOLEAN : FunctionsList(ok)
    \/ \E ok \in BOOLEAN : FunctionsBeastModes(ok)
    \/ FunctionsLogged
    \/ \E ok \in BOOLEAN : FunctionsVariables(ok)
    \/ FunctionsNext
    \/ \E ok \in BOOLEAN : PublicationsList(ok)
    \/ \E ok \in BOOLEAN : PublicationsDetail(ok)
    \/ \E ok \in BOOLEAN : ApprovalsList(ok)
    \/ \E ok \in BOOLEAN : ApprovalsReplace(ok)
    \/ ApprovalsLogged
    \/ \E ok \in BOOLEAN, shape \in {"array", "object"} : ProjectsList(ok, shape)
    \/ ProjectsLogged
    \/ \E ok \in BOOLEAN : DataflowsName(ok)
    \/ \E ok \in BOOLEAN : DataflowsList(ok)
    \/ DataflowsLogged
    \/ \E ok \in BOOLEAN : DataflowsPatch(ok)
    \/ \E ok \in BOOLEAN : DataflowsTag(ok)
    \/ \E ok \in BOOLEAN : CollectionsList(ok)
    \/ \E ok \in BOOLEAN : CollectionsPut(ok)
    \/ \E ok \in BOOLEAN : CustomAppsList(ok)
    \/ \E ok \in BOOLEAN : CustomAppsGrant(ok)
    \/ CustomAppsNext
    \/ \E ok \in BOOLEAN : PagesList(ok)
    \/ \E ok \in BOOLEAN : PagesAdd(ok)
    \/ \E ok \in BOOLEAN : PagesRemove(ok)
    \/ PagesNext
    \/ \E ok \in BOOLEAN : AppStudioList(ok)
    \/ \E ok \in BOOLEAN : AppStudioAdd(ok)
    \/ \E ok \in BOOLEAN : AppStudioRemove(ok)
    \/ AppStudioNext
    \/ \E ok \in BOOLEAN : AccountsList(ok)
    \/ \E ok \in BOOLEAN : AccountsAdd(ok)
    \/ \E ok \in BOOLEAN : AccountsRemove(ok)

Spec == Init /\ [][Next]_vars

\* transferContent(userId, userId): the user is named as their own successor
InitSelf == TransferContentCalled(SourceUsers)

SpecSelf == InitSelf /\ [][Next]_vars

-----------------------------------------------------------------------------
(* Specification: one call of logTransfers *)

\* the handlers whose logTransfers call is followed, with the type, status
\* and notes they pass
LogCallers == {
    [k |-> "datasets", type |-> "DATA_SOURCE", status |-> "TRANSFERRED",
     notes |-> NullNotes, attr |-> "none"],
    [k |-> "publications", type |-> "PUBLICATION", status |-> "NOT_TRANSFERRED",
     notes |-> PublicationNotes, attr |-> "-"] }

\* The state in which a handler that collected the ids 1..n over its pages
\* (the datasets after their transfer loop, the publications after their
\* detail requests) calls logTransfers; every other handler has returned.
InitLog ==
    /\ userId \in SourceUsers
    /\ newOwnerId \in NewOwners
    /\ \E c \in LogCallers, n \in 0..MaxIds :
        LET ids == [j \in 1..n |-> j]
            l == logTransfers(c.type, ids, c.status, c.notes)
            transferred == c.status = "TRANSFERRED"
        IN  /\ res = [k \in Handlers |-> IF k # c.k THEN <<>> ELSE
                        [j \in 1..n |-> [owners |-> IF transferred THEN {newOwnerId}
                                                    ELSE {userId},
                                         attr |-> c.attr]]]
            /\ h = [k \in Handlers |-> IF k # c.k THEN Returned ELSE
                        AwaitLog([Started EXCEPT !.items = ids, !.i = n,
                                     !.page = IF transferred THEN <<>> ELSE ids,
                                     !.offset = IF transferred
                                                THEN PageSize * ((n + PageSize - 1) \div PageSize)
                                                ELSE 0],
                                 ids, "end")]
            /\ lt = [k \in Handlers |-> IF k = c.k THEN l ELSE Idle]
            /\ flushes = [k \in Handlers |->
                            IF k = c.k /\ Len(l.batch) > 0 THEN <<l.batch>> ELSE <<>>]
            /\ calls = [k \in Handlers |-> IF k = c.k /\ transferred
                            THEN [j \in 1..n |-> [op |-> "responsibleUsers", ids |-> <<j>>]]
                            ELSE <<>>]
    /\ log = <<>>
    /\ tc = "pending"

NextLog ==
    \/ \E k \in Handlers, ok \in BOOLEAN : AppendUpload(k, ok)
    \/ \E k \in Handlers, ok \in BOOLEAN : AppendPart(k, ok)
    \/ \E k \in Handlers, ok \in BOOLEAN : AppendCommit(k, ok)
    \/ \E k \in Handlers : Return(k)

SpecLog == InitLog /\ [][NextLog]_vars

-----------------------------------------------------------------------------
(* main.js: transferContent awaits the kinds one after the other *)

\* the kinds main.js's transferContent starts with, in its order
MainKinds == <<"datasets", "cards", "alerts">>

MainIndex(k) == CHOOSE j \in 1..Len(MainKinds) : MainKinds[j] = k

\* an exception of an awaited call leaves transferContent; the call returns
\* when its last statement has run
MainSettle(hh) ==
    IF tc # "pending" THEN tc
    ELSE IF \E j \in 1..Len(MainKinds) : hh[MainKinds[j]].pc = "failed" THEN "rejected"
    ELSE IF \A j \in 1..Len(MainKinds) : hh[MainKinds[j]].pc = "done" THEN "resolved"
    ELSE "pending"

MainStep(hh) ==
    /\ h' = hh
    /\ tc' = MainSettle(hh)

\* codeengine.sendRequest throws: nothing catches it
MainThrow(k) ==
    /\ MainStep([h EXCEPT ![k].pc = "failed"])
    /\ UNCHANGED <<userId, newOwnerId, res, lt, log, flushes, calls>>

\* kind k is done: transferContent calls the get function of the next kind
MainDone(k, r) ==
    LET j == MainIndex(k)
    IN  IF j < Len(MainKinds)
        THEN [h EXCEPT ![k] = [r EXCEPT !.pc = "done"], ![MainKinds[j + 1]].pc = "list"]
        ELSE [h EXCEPT ![k] = [r EXCEPT !.pc = "done"]]

\* getDatasets, getCards, getAlerts: one listing page answered
MainGet(k, ok) ==
    LET resp == Page(OwnedBy(k, userId), h[k].offset, PageSize)
        more == Len(resp) > 0 /\ ~(Len(resp) < PageSize)
        list == h[k].items \o resp
        r == [h[k] EXCEPT !.items = list,
                          !.offset = IF Len(resp) > 0 THEN @ + PageSize ELSE @]
    IN  /\ h[k].pc = "list"
        /\ IF ~ok THEN MainThrow(k)
           ELSE IF more
           THEN /\ MainStep([h EXCEPT ![k] = r])
                /\ UNCHANGED <<userId, newOwnerId, res, lt, log, flushes, calls>>
           ELSE IF k = "cards"
           THEN \* transferCards: one POST owners/add for the whole list
                /\ MainStep([h EXCEPT ![k] = [r EXCEPT !.pc = "transfer"]])
                /\ Issue(k, "owners/add", list)
                /\ UNCHANGED <<userId, newOwnerId, res, lt, log, flushes>>
           ELSE IF Len(list) > 0
           THEN \* transferDatasets, transferAlerts: one request per id
                /\ MainStep([h EXCEPT ![k] = [r EXCEPT !.i = 1, !.pc = "transfer"]])
                /\ Issue(k, IF k = "datasets" THEN "responsibleUsers" ELSE "alerts/share",
                         <<list[1]>>)
                /\ UNCHANGED <<userId, newOwnerId, res, lt, log, flushes>>
           ELSE /\ MainStep(MainDone(k, r))
                /\ UNCHANGED <<userId, newOwnerId, res, lt, log, flushes, calls>>

\* transferDatasets: PUT responsibleUsers answered
MainTransferDatasets(ok) ==
    LET k == "datasets"
        datasets == h[k].items
    IN  /\ h[k].pc = "transfer"
        /\ IF ~ok THEN MainThrow(k)
           ELSE /\ res' = SetOwner(k, <<datasets[h[k].i]>>, newOwnerId)
                /\ IF h[k].i < Len(datasets)
                   THEN /\ MainStep([h EXCEPT ![k].i = @ + 1])
                        /\ Issue(k, "responsibleUsers", <<datasets[h[k].i + 1]>>)
                   ELSE /\ MainStep(MainDone(k, h[k]))
                        /\ UNCHANGED calls
                /\ UNCHANGED <<userId, newOwnerId, lt, log, flushes>>

\* transferCards: POST owners/add answered
MainTransferCards(ok) ==
    LET k == "cards"
    IN  /\ h[k].pc = "transfer"
        /\ IF ~ok THEN MainThrow(k)
           ELSE /\ res' = AddOwner(k, h[k].items, newOwnerId)
                /\ MainStep(MainDone(k, h[k]))
                /\ UNCHANGED <<userId, newOwnerId, lt, log, flushes, calls>>

\* transferAlerts: POST alerts/{id}/share answered (the successor is
\* subscribed, the owner is kept)
MainTransferAlerts(ok) ==
    LET k == "alerts"
        alerts == h[k].items
    IN  /\ h[k].pc = "transfer"
        /\ IF ~ok THEN MainThrow(k)
           ELSE /\ IF h[k].i < Len(alerts)
                   THEN /\ MainStep([h EXCEPT ![k].i = @ + 1])
                        /\ Issue(k, "alerts/share", <<alerts[h[k].i + 1]>>)
                   ELSE /\ MainStep(MainDone(k, h[k]))
                        /\ UNCHANGED calls
                /\ UNCHANGED <<userId, newOwnerId, res, lt, log, flushes>>

InMain(k) == \E j \in 1..Len(MainKinds) : MainKinds[j] = k

\* transferContent has called getDatasets; the later kinds are not started
InitMain ==
    /\ userId \in SourceUsers
    /\ newOwnerId \in NewOwners
    /\ \E n \in [{"datasets", "cards", "alerts"} -> 0..MaxOwned] :
        /\ n["datasets"] + n["cards"] + n["alerts"] <= MaxOwned
        /\ res = [k \in Handlers |-> IF InMain(k)
                     THEN [j \in 1..n[k] |-> [owners |-> {userId}, attr |-> "-"]]
                     ELSE <<>>]
    /\ h = [k \in Handlers |->
              IF k = MainKinds[1] THEN Started
              ELSE IF InMain(k) THEN [Started EXCEPT !.pc = "wait"]
              ELSE Returned]
    /\ lt = [k \in Handlers |-> Idle]
    /\ log = <<>>
    /\ flushes = [k \in Handlers |-> <<>>]
    /\ calls = [k \in Handlers |-> <<>>]
    /\ tc = "pending"

NextMain ==
    \/ \E k \in {"datasets", "cards", "alerts"}, ok \in BOOLEAN : MainGet(k, ok)
    \/ \E ok \in BOOLEAN : MainTransferDatasets(ok)
    \/ \E ok \in BOOLEAN : MainTransferCards(ok)
    \/ \E ok \in BOOLEAN : MainTransferAlerts(ok)

SpecMain == InitMain /\ [][NextMain]_vars

-----------------------------------------------------------------------------
(* transferContent called a second time with the same userId and newOwnerId,
   after the first call has resolved.  tc = "again" from then on; calls,
   flushes and log go on from the first call. *)

Rerun ==
    /\ tc = "resolved"
    /\ tc' = "again"
    /\ h' = [k \in Handlers |-> IF Len(res[k]) > 0 THEN Entry(k) ELSE Returned]
    /\ lt' = [k \in Handlers |-> Idle]
    /\ UNCHANGED <<userId, newOwnerId, res, log, flushes, calls>>

NextTwice ==
    \/ Next
    \/ Rerun

SpecTwice == Init /\ [][NextTwice]_vars

-----------------------------------------------------------------------------
(* The enumeration loops, each alone against a listing that does not change.
   h[e] holds the locals of the loop, calls[e] the list requests it sent,
   res[e] the listing of the backend. *)

Enumerations == {"transferDatasets", "transferSubscriptions", "transferAiModels",
                 "transferAiProjects", "transferFunctions", "getUsersByGrant",
                 "getAccounts", "getUsersForDataset", "getTasks",
                 "getScheduledReports"}

\* a list request: the offset and the limit it carries, <<>> when the url or
\* body carries none
ListRequest(offset, limit) == [op |-> "list", offset |-> offset, limit |-> limit]

\* the request as the loop has sent it, with the way it was answered
Sent(rq, ok) == [op |-> rq.op, offset |-> rq.offset, limit |-> rq.limit, ok |-> ok]

\* the backend answers from the offset and limit it is sent: from the start
\* when no offset is sent, to the end when no limit is sent
Answer(e, rq) ==
    Page(Ids(e), IF rq.offset = <<>> THEN 0 ELSE rq.offset[1],
                 IF rq.limit = <<>> THEN Len(res[e]) ELSE rq.limit[1])

\* (variant: a page as long as the limit ends the loop)
LastPageOrFull(n, limit) == n <= limit

\* if (response.length < limit) moreData = false
LastPage(n, limit) == n < limit

\* (variant: the request after the next is sent along with the next one)
AwaitedAhead(r, moreData) ==
    [r EXCEPT !.got = @ + 1, !.i = IF moreData THEN @ + 2 ELSE @]

\* const response = await ...: the loop is suspended until the answer to
\* its request arrives (got counts the answers) and sends its next request
\* (i counts the requests) in the turn that follows, while (moreData)
Awaited(r, moreData) ==
    [r EXCEPT !.got = @ + 1, !.i = IF moreData THEN @ + 1 ELSE @]

\* the request rq was answered: the loop pushed `pushed`, moved its offset
\* and set moreData
Fetched(e, rq, pushed, offset, moreData) ==
    /\ h[e].pc = "list"
    /\ Len(calls[e]) < MaxFetches
    /\ calls' = [calls EXCEPT ![e] = Append(@, Sent(rq, TRUE))]
    /\ h' = [h EXCEPT ![e] = [Awaited(@, moreData) EXCEPT
                                       !.page = Answer(e, rq),
                                       !.items = @ \o pushed,
                                       !.offset = offset,
                                       !.more = moreData,
                                       !.pc = IF moreData THEN "list" ELSE "done"]]
    /\ UNCHANGED <<userId, newOwnerId, res, lt, log, flushes, tc>>

\* the request rq failed: handleRequest logs and rethrows, a bare
\* codeengine.sendRequest throws, and nothing in the loop catches
Failed(e, rq) ==
    /\ h[e].pc = "list"
    /\ Len(calls[e]) < MaxFetches
    /\ calls' = [calls EXCEPT ![e] = Append(@, Sent(rq, FALSE))]
    /\ h' = [h EXCEPT ![e] = [Awaited(@, FALSE) EXCEPT !.pc = "failed"]]
    /\ UNCHANGED <<userId, newOwnerId, res, lt, log, flushes, tc>>

\* the loop most handlers use: offset and limit are sent, a non-empty page is
\* pushed and the offset advanced, a short or empty page ends the loop
PageLoop(e, rq, ok) ==
    LET response == Answer(e, rq)
    IN  IF ~ok THEN Failed(e, rq)
        ELSE IF Len(response) > 0
        THEN Fetched(e, rq, response, h[e].offset + PageSize,
                     ~LastPage(Len(response), PageSize))
        ELSE Fetched(e, rq, <<>>, h[e].offset, FALSE)

\* transferDatasets: count and offset in the body
EnumDatasets(ok) ==
    PageLoop("transferDatasets", ListRequest(<<h["transferDatasets"].offset>>, <<PageSize>>), ok)

\* transferSubscriptions: the url carries neither limit nor offset
EnumSubscriptions(ok) ==
    PageLoop("transferSubscriptions", ListRequest(<<>>, <<>>), ok)

\* transferAiModels: the body says limit: 50, offset: 0
EnumAiModels(ok) ==
    PageLoop("transferAiModels", ListRequest(<<0>>, <<PageSize>>), ok)

\* transferAiProjects: the body says limit: 50, offset: 0
EnumAiProjects(ok) ==
    PageLoop("transferAiProjects", ListRequest(<<0>>, <<PageSize>>), ok)

\* getTasks: the url says limit=100&offset=0
EnumTasks(ok) ==
    PageLoop("getTasks", ListRequest(<<0>>, <<PageSize>>), ok)

\* transferFunctions: moreData = response.hasMore after a non-empty page
EnumFunctions(ok) ==
    LET e == "transferFunctions"
        rq == ListRequest(<<h[e].offset>>, <<PageSize>>)
        response == Answer(e, rq)
        hasMore == h[e].offset + PageSize < Len(res[e])
    IN  IF ~ok THEN Failed(e, rq)
        ELSE IF Len(response) > 0
        THEN Fetched(e, rq, response, h[e].offset + PageSize, hasMore)
        ELSE Fetched(e, rq, <<>>, h[e].offset, FALSE)

\* getUsersByGrant: every page is pushed and the offset always advanced
EnumUsersByGrant(ok) ==
    LET e == "getUsersByGrant"
        rq == ListRequest(<<h[e].offset>>, <<PageSize>>)
        response == Answer(e, rq)
    IN  IF ~ok THEN Failed(e, rq)
        ELSE Fetched(e, rq, response, h[e].offset + PageSize,
                     ~LastPage(Len(response), PageSize))

\* getAccounts (main.js): moreData = false closes the body of the loop
EnumAccounts(ok) ==
    LET e == "getAccounts"
        rq == ListRequest(<<h[e].offset>>, <<PageSize>>)
        response == Answer(e, rq)
    IN  IF ~ok THEN Failed(e, rq)
        ELSE IF Len(response) > 0
        THEN Fetched(e, rq, response, h[e].offset + PageSize, FALSE)
        ELSE Fetched(e, rq, <<>>, h[e].offset, FALSE)

\* getUsersForDataset (main.js): `var count;` is never initialised, so
\* count += n is NaN and count >= response.count is false: only an empty
\* page ends the loop
EnumUsersForDataset(ok) ==
    LET e == "getUsersForDataset"
        rq == ListRequest(<<h[e].offset>>, <<PageSize>>)
        response == Answer(e, rq)
    IN  IF ~ok THEN Failed(e, rq)
        ELSE IF Len(response) > 0
        THEN Fetched(e, rq, response, h[e].offset + PageSize, TRUE)
        ELSE Fetched(e, rq, <<>>, h[e].offset, FALSE)

\* getScheduledReports (main.js): one request without limit or offset, in a
\* try whose catch logs the error; the function then returns undefined
EnumScheduledReports(ok) ==
    LET e == "getScheduledReports"
        rq == ListRequest(<<>>, <<>>)
    IN  IF ok
        THEN Fetched(e, rq, Answer(e, rq), h[e].offset, FALSE)
        ELSE /\ h[e].pc = "list"
             /\ calls' = [calls EXCEPT ![e] = Append(@, Sent(rq, FALSE))]
             /\ h' = [h EXCEPT ![e] = [Awaited(@, FALSE) EXCEPT
                                            !.pc = "done", !.ret = "undefined"]]
             /\ UNCHANGED <<userId, newOwnerId, res, lt, log, flushes, tc>>

InitEnum ==
    /\ userId \in SourceUsers
    /\ newOwnerId \in NewOwners
    /\ \E e \in Enumerations, n \in 0..MaxListed :
        /\ res = [x \in Enumerations |-> IF x # e THEN <<>> ELSE
                    [j \in 1..n |-> [owners |-> {userId}, attr |-> "-"]]]
        /\ h = [x \in Enumerations |->
                  IF x = e THEN [Started EXCEPT !.i = 1] ELSE Returned]
    /\ calls = [x \in Enumerations |-> <<>>]
    /\ lt = [x \in Enumerations |-> Idle]
    /\ flushes = [x \in Enumerations |-> <<>>]
    /\ log = <<>>
    /\ tc = "pending"

NextEnum ==
    \/ \E ok \in BOOLEAN : EnumDatasets(ok)
    \/ \E ok \in BOOLEAN : EnumSubscriptions(ok)
    \/ \E ok \in BOOLEAN : EnumAiModels(ok)
    \/ \E ok \in BOOLEAN : EnumAiProjects(ok)
    \/ \E ok \in BOOLEAN : EnumTasks(ok)
    \/ \E ok \in BOOLEAN : EnumFunctions(ok)
    \/ \E ok \in BOOLEAN : EnumUsersByGrant(ok)
    \/ \E ok \in BOOLEAN : EnumAccounts(ok)
    \/ \E ok \in BOOLEAN : EnumUsersForDataset(ok)
    \/ \E ok \in BOOLEAN : EnumScheduledReports(ok)

SpecEnum == InitEnum /\ [][NextEnum]_vars

-----------------------------------------------------------------------------
(* creation-script.js: createLogDataset and createSinglePackage, called one
   after the other any number of times against one tenant.  res is the
   tenant: the names of its datasets and of its Code Engine packages, in
   the order of their creation (index = id); h[op] holds the locals of the
   operation, calls[op] the create requests it sent. *)

LogDatasetName == "MajorDomo User Offboarding Object Transfer Log"

Filenames == {"majordomo-user-offboarding-package-definition.json",
              "domo-product-apis-supplemental-package-definition.json"}

\* the name preparePackage gives the package of a definition file
generateDisplayName(filename) ==
    IF filename = "majordomo-user-offboarding-package-definition.json"
    THEN "MajorDomo User Offboarding"
    ELSE "Domo Product APIs Supplemental"

Operations == {"createLogDataset", "createSinglePackage"}

\* locals of an operation: ret is what its last call returned, <<>> before
\* any call and when it threw
NotCalled == [pc |-> "idle", runs |-> 0, ret |-> <<>>, name |-> ""]

\* the ids of the datasets the search answers with, newest first
\* (sort: create_date DESC)
SearchResults(name) ==
    LET n == Len(res.datasets)
        newestFirst == [j \in 1..n |-> n + 1 - j]
    IN  SelectSeq(newestFirst, LAMBDA id : res.datasets[id] = name)

\* an operation is called when the one before has returned
Call(op, r) ==
    /\ \A o \in Operations : h[o].pc = "idle"
    /\ h["createLogDataset"].runs + h["createSinglePackage"].runs < MaxRuns
    /\ h' = [h EXCEPT ![op] = [r EXCEPT !.runs = @ + 1, !.ret = <<>>]]

\* the operation returns ret (<<>>: it throws)
Back(op, ret) == h' = [h EXCEPT ![op] = [@ EXCEPT !.pc = "idle", !.ret = ret]]

\* createLogDataset is called: getCurrentUserId sends GET session
LogDatasetCall ==
    /\ Call("createLogDataset", [h["createLogDataset"] EXCEPT !.pc = "session"])
    /\ UNCHANGED <<userId, newOwnerId, res, lt, log, flushes, calls, tc>>

\* GET session answered: the search is sent, or getCurrentUserId throws
LogDatasetSession(ok) ==
    LET op == "createLogDataset"
    IN  /\ h[op].pc = "session"
        /\ IF ok THEN h' = [h EXCEPT ![op] = [@ EXCEPT !.pc = "search"]]
                 ELSE Back(op, <<>>)
        /\ UNCHANGED <<userId, newOwnerId, res, lt, log, flushes, calls, tc>>

\* searchForExistingLogDataset: the id of the first result, null (<<>>)
\* when there is none, when the response is not ok and when fetch throws
searchForExistingLogDataset(ok) ==
    LET combined == SearchResults(LogDatasetName)
    IN  IF ok /\ Len(combined) > 0 THEN <<combined[1]>> ELSE <<>>

\* POST search answered: the dataset found is returned, or POST webforms is sent
LogDatasetSearch(ok) ==
    LET op == "createLogDataset"
        existingDatasetId == searchForExistingLogDataset(ok)
    IN  /\ h[op].pc = "search"
        /\ IF existingDatasetId # <<>>
           THEN /\ Back(op, existingDatasetId)
                /\ UNCHANGED calls
           ELSE /\ h' = [h EXCEPT ![op] = [@ EXCEPT !.pc = "create"]]
                /\ calls' = [calls EXCEPT ![op] = Append(@, [op |-> "webforms",
                                                             name |-> LogDatasetName])]
        /\ UNCHANGED <<userId, newOwnerId, res, lt, log, flushes, tc>>

\* POST webforms answered: the id of the new dataset is returned
LogDatasetCreate(ok) ==
    LET op == "createLogDataset"
    IN  /\ h[op].pc = "create"
        /\ IF ok
           THEN /\ res' = [res EXCEPT !.datasets = Append(@, LogDatasetName)]
                /\ Back(op, <<Len(res.datasets) + 1>>)
           ELSE /\ Back(op, <<>>)
                /\ UNCHANGED res
        /\ UNCHANGED <<userId, newOwnerId, lt, log, flushes, calls, tc>>

\* createSinglePackage(filename) is called: the definition is read (or is
\* found neither in the directory nor on GitHub, and the call throws),
\* preparePackage clears its id and names it, createPackageInDomo sends
\* POST packages
PackageCall(filename, found) ==
    LET op == "createSinglePackage"
        name == generateDisplayName(filename)
    IN  /\ Call(op, [h[op] EXCEPT !.name = name,
                                  !.pc = IF found THEN "post" ELSE "idle"])
        /\ calls' = IF found
                    THEN [calls EXCEPT ![op] = Append(@, [op |-> "packages",
                                                          name |-> name])]
                    ELSE calls
        /\ UNCHANGED <<userId, newOwnerId, res, lt, log, flushes, tc>>

\* POST packages answered: the package exists; with a JSON body its id is
\* read and its version released, with another body response.text() is
\* called on the body response.json() has consumed, and the call throws
PackagePost(ok, json) ==
    LET op == "createSinglePackage"
        packageId == Len(res.packages) + 1
    IN  /\ h[op].pc = "post"
        /\ IF ok
           THEN /\ res' = [res EXCEPT !.packages = Append(@, h[op].name)]
                /\ IF json
                   THEN h' = [h EXCEPT ![op] = [@ EXCEPT !.pc = "release",
                                                         !.ret = <<packageId>>]]
                   ELSE Back(op, <<>>)
           ELSE /\ Back(op, <<>>)
                /\ UNCHANGED res
        /\ UNCHANGED <<userId, newOwnerId, lt, log, flushes, calls, tc>>

\* POST release answered
PackageRelease(ok) ==
    LET op == "createSinglePackage"
    IN  /\ h[op].pc = "release"
        /\ Back(op, IF ok THEN h[op].ret ELSE <<>>)
        /\ UNCHANGED <<userId, newOwnerId, res, lt, log, flushes, calls, tc>>

\* a tenant that holds each dataset and each package at most once
Tenants ==
    [datasets : {<<>>, <<LogDatasetName>>, <<"DomoStats Scheduled Reports">>,
                 <<LogDatasetName, "DomoStats Scheduled Reports">>},
     packages : {<<>>, <<"MajorDomo User Offboarding">>,
                 <<"MajorDomo User Offboarding", "Domo Product APIs Supplemental">>}]

InitScript ==
    /\ userId \in SourceUsers
    /\ newOwnerId \in NewOwners
    /\ res \in Tenants
    /\ h = [op \in Operations |-> NotCalled]
    /\ calls = [op \in Operations |-> <<>>]
    /\ lt = [op \in Operations |-> Idle]
    /\ flushes = [op \in Operations |-> <<>>]
    /\ log = <<>>
    /\ tc = "pending"

NextScript ==
    \/ LogDatasetCall
    \/ \E ok \in BOOLEAN : LogDatasetSession(ok)
    \/ \E ok \in BOOLEAN : LogDatasetSearch(ok)
    \/ \E ok \in BOOLEAN : LogDatasetCreate(ok)
    \/ \E filename \in Filenames, found \in BOOLEAN : PackageCall(filename, found)
    \/ \E ok \in BOOLEAN, json \in BOOLEAN : PackagePost(ok, json)
    \/ \E ok \in BOOLEAN : PackageRelease(ok)

SpecScript == InitScript /\ [][NextScript]_vars

-----------------------------------------------------------------------------
(* The per-item transfers, each alone: the function is given (or has just
   enumerated) the ids 1..n of the resources of the user.  h[e].items are
   the enumerated ids, calls[e] the ownership requests sent, each with the
   ids its url or body names.  No transferContent runs: tc = "none". *)

ItemLoops == {"transferWorkflows", "getApprovals", "transferAiModels",
              "transferDatasets"}

\* i < workflows, a number compared with an array: the array is converted
\* to a number, 0 when empty and NaN for one or more uuids, and neither
\* 0 < 0 nor i < NaN holds
LessThanArray(i, array) == FALSE

\* transferWorkflows (main.js) is called with the uuids getWorkflows returned:
\* for (let i = 0; i < workflows; i++) has no iteration, no PUT
\* workflow/v1/models/{uuid} is sent
ItemsWorkflows ==
    LET e == "transferWorkflows"
    IN  /\ h[e].pc = "call"
        /\ ~LessThanArray(0, h[e].items)
        /\ h' = [h EXCEPT ![e] = [@ EXCEPT !.pc = "done"]]
        /\ UNCHANGED <<userId, newOwnerId, res, lt, log, flushes, calls, tc>>

\* getApprovals (main.js): POST graphql getFilteredRequests answered with the
\* approvals whose approver is the user.  console.log(edges[0].node.approval)
\* throws when there is none; approvalChangeOwner builds the replaceApprovers
\* body and returns without sending it
ItemsApprovals(ok) ==
    LET e == "getApprovals"
        responseApprovals == OwnedBy(e, userId)
    IN  /\ h[e].pc = "list"
        /\ h' = [h EXCEPT ![e] = [@ EXCEPT
                    !.items = IF ok THEN responseApprovals ELSE @,
                    !.pc = IF ok /\ Len(responseApprovals) > 0 THEN "done" ELSE "failed"]]
        /\ UNCHANGED <<userId, newOwnerId, res, lt, log, flushes, calls, tc>>

\* transferAiModels (part_001), after its enumeration pushed the ids of the
\* models: the url of the request is built from models[i].id, and an id has
\* no property id, so the url names no model
ItemsAiModels ==
    LET e == "transferAiModels"
        models == h[e].items
    IN  /\ h[e].pc = "call"
        /\ IF Len(models) > 0
           THEN /\ Step(e, [h[e] EXCEPT !.i = 1, !.pc = "post"])
                /\ Issue(e, "models/ownership", <<>>)
                /\ UNCHANGED <<lt, flushes>>
           ELSE /\ Step(e, AwaitLog(h[e], models, "end"))
                /\ CallLog(e, "AI_MODEL", models, "TRANSFERRED", NullNotes)
                /\ UNCHANGED calls
        /\ UNCHANGED <<userId, newOwnerId, res, log>>

\* POST models/undefined/ownership answered
ItemsAiModelsPost(ok) ==
    LET e == "transferAiModels"
        models == h[e].items
    IN  /\ h[e].pc = "post"
        /\ handleRequest(e, ok,
             IF h[e].i < Len(models)
             THEN /\ Step(e, [h[e] EXCEPT !.i = @ + 1])
                  /\ Issue(e, "models/ownership", <<>>)
                  /\ UNCHANGED <<userId, newOwnerId, res, lt, log, flushes>>
             ELSE /\ Step(e, AwaitLog(h[e], models, "end"))
                  /\ CallLog(e, "AI_MODEL", models, "TRANSFERRED", NullNotes)
                  /\ UNCHANGED <<userId, newOwnerId, res, log, calls>>)

\* transferDatasets (main.js) is called with the ids getDatasets returned
ItemsDatasets ==
    LET e == "transferDatasets"
        datasets == h[e].items
    IN  /\ h[e].pc = "call"
        /\ IF Len(datasets) > 0
           THEN /\ h' = [h EXCEPT ![e] = [@ EXCEPT !.i = 1, !.pc = "put"]]
                /\ Issue(e, "responsibleUsers", <<datasets[1]>>)
           ELSE /\ h' = [h EXCEPT ![e] = [@ EXCEPT !.pc = "done"]]
                /\ UNCHANGED calls
        /\ UNCHANGED <<userId, newOwnerId, res, lt, log, flushes, tc>>

\* PUT datasources/{id}/responsibleUsers answered
ItemsDatasetsPut(ok) ==
    LET e == "transferDatasets"
        datasets == h[e].items
    IN  /\ h[e].pc = "put"
        /\ IF ~ok
           THEN /\ h' = [h EXCEPT ![e] = [@ EXCEPT !.pc = "failed"]]
                /\ UNCHANGED <<res, calls>>
           ELSE /\ res' = SetOwner(e, <<datasets[h[e].i]>>, newOwnerId)
                /\ IF h[e].i < Len(datasets)
                   THEN /\ h' = [h EXCEPT ![e] = [@ EXCEPT !.i = @ + 1]]
                        /\ Issue(e, "responsibleUsers", <<datasets[h[e].i + 1]>>)
                   ELSE /\ h' = [h EXCEPT ![e] = [@ EXCEPT !.pc = "done"]]
                        /\ UNCHANGED calls
        /\ UNCHANGED <<userId, newOwnerId, lt, log, flushes, tc>>

\* the state in which a function is entered: getApprovals awaits its list
\* request, the others are called with the enumerated ids
ItemsEntry(e, n) ==
    IF e = "getApprovals" THEN Started
    ELSE [Started EXCEPT !.pc = "call", !.items = [j \in 1..n |-> j]]

InitItems ==
    /\ userId \in SourceUsers
    /\ newOwnerId \in NewOwners
    /\ \E e \in ItemLoops, n \in 0..MaxListed :
        /\ res = [x \in ItemLoops |-> IF x # e THEN <<>> ELSE
                    [j \in 1..n |-> [owners |-> {userId}, attr |-> "-"]]]
        /\ h = [x \in ItemLoops |-> IF x = e THEN ItemsEntry(e, n) ELSE Returned]
    /\ calls = [x \in ItemLoops |-> <<>>]
    /\ lt = [x \in ItemLoops |-> Idle]
    /\ flushes = [x \in ItemLoops |-> <<>>]
    /\ log = <<>>
    /\ tc = "none"

NextItems ==
    \/ ItemsWorkflows
    \/ \E ok \in BOOLEAN : ItemsApprovals(ok)
    \/ ItemsAiModels
    \/ \E ok \in BOOLEAN : ItemsAiModelsPost(ok)
    \/ ItemsDatasets
    \/ \E ok \in BOOLEAN : ItemsDatasetsPut(ok)
    \/ \E e \in ItemLoops, ok \in BOOLEAN : AppendUpload(e, ok)
    \/ \E e \in ItemLoops, ok \in BOOLEAN : AppendPart(e, ok)
    \/ \E e \in ItemLoops, ok \in BOOLEAN : AppendCommit(e, ok)
    \/ \E e \in ItemLoops : Return(e)

SpecItems == InitItems /\ [][NextItems]_vars

-----------------------------------------------------------------------------
(* The handlers whose listing is not filtered by owner, each alone, in an
   instance where other users own resources too: transferAppStudioApps,
   transferCustomApps, getPublications and transferSubscriptions.  No
   Promise.all is followed: tc = "none". *)

MixedKinds == {"appStudio", "customApps", "publications", "subscriptions"}

\* const limit = 40 of transferSubscriptions
SubscriptionsLimit == 40

\* GET subscriptions/summaries answered.  The url carries no offset: every
\* answer is the list of the subscriptions of the instance from its start.
\* After the last answer the loop over the subscriptions sends its first
\* GET subscriptions/{id}/share
SubscriptionsList(ok) ==
    LET k == "subscriptions"
        response == Page(Ids(k), 0, SubscriptionsLimit)
        subscriptions == h[k].items \o response
        moreData == Len(response) > 0 /\ ~(Len(response) < SubscriptionsLimit)
    IN  /\ h[k].pc = "list"
        /\ handleRequest(k, ok,
             IF moreData
             THEN /\ Step(k, [h[k] EXCEPT !.items = subscriptions,
                                          !.offset = @ + SubscriptionsLimit])
                  /\ UNCHANGED <<userId, newOwnerId, res, lt, log, flushes, calls>>
             ELSE IF Len(subscriptions) > 0
             THEN /\ Step(k, [h[k] EXCEPT !.items = subscriptions, !.i = 1,
                                          !.pc = "share"])
                  /\ UNCHANGED <<userId, newOwnerId, res, lt, log, flushes, calls>>
             ELSE /\ Step(k, AwaitLog(h[k], <<>>, "end"))
                  /\ CallLog(k, "SUBSCRIPTION", <<>>, "TRANSFERRED", NullNotes)
                  /\ UNCHANGED <<userId, newOwnerId, res, log, calls>>)

\* the loop over the subscriptions moves on from index i: the next
\* GET share, or logTransfers with the subscriptionIds pushed so far
SubscriptionsAdvance(k, r) ==
    IF r.i < Len(r.items)
    THEN /\ Step(k, [r EXCEPT !.i = @ + 1, !.pc = "share"])
         /\ UNCHANGED <<lt, flushes>>
    ELSE /\ Step(k, AwaitLog(r, r.page, "end"))
         /\ CallLog(k, "SUBSCRIPTION", r.page, "TRANSFERRED", NullNotes)

\* GET subscriptions/{id}/share answered: if (subscription.userId == userId)
\* the id is pushed and the PUT naming the new owner is sent
SubscriptionsShare(ok) ==
    LET k == "subscriptions"
        id == h[k].items[h[k].i]
    IN  /\ h[k].pc = "share"
        /\ handleRequest(k, ok,
             IF userId \in res[k][id].owners
             THEN /\ Step(k, [h[k] EXCEPT !.page = Append(@, id), !.pc = "put"])
                  /\ Issue(k, "subscriptions", <<id>>)
                  /\ UNCHANGED <<userId, newOwnerId, res, lt, log, flushes>>
             ELSE /\ SubscriptionsAdvance(k, h[k])
                  /\ UNCHANGED <<userId, newOwnerId, res, log, calls>>)

\* PUT subscriptions/{id} {.., userId: newOwnerId, ..} answered
SubscriptionsPut(ok) ==
    LET k == "subscriptions"
        id == h[k].items[h[k].i]
    IN  /\ h[k].pc = "put"
        /\ handleRequest(k, ok,
             /\ res' = SetOwner(k, <<id>>, newOwnerId)
             /\ SubscriptionsAdvance(k, h[k])
             /\ UNCHANGED <<userId, newOwnerId, log, calls>>)

\* the resources of kind k of the instance: up to MaxOwned, each owned by the
\* user or by another user (user 7)
Mixed(k) ==
    UNION {[1..n -> [owners : {{u} : u \in SourceUsers \cup {7}},
                     attr : Attrs(k)]] : n \in 0..MaxOwned}

InitMixed ==
    /\ userId \in SourceUsers
    /\ newOwnerId \in NewOwners
    /\ \E k \in MixedKinds :
        /\ \E r \in Mixed(k) :
             res = [x \in MixedKinds |-> IF x = k THEN r ELSE <<>>]
        /\ h = [x \in MixedKinds |-> IF x = k THEN Started ELSE Returned]
    /\ lt = [x \in MixedKinds |-> Idle]
    /\ log = <<>>
    /\ flushes = [x \in MixedKinds |-> <<>>]
    /\ calls = [x \in MixedKinds |-> <<>>]
    /\ tc = "none"

NextMixed ==
    \/ \E k \in MixedKinds, ok \in BOOLEAN : AppendUpload(k, ok)
    \/ \E k \in MixedKinds, ok \in BOOLEAN : AppendPart(k, ok)
    \/ \E k \in MixedKinds, ok \in BOOLEAN : AppendCommit(k, ok)
    \/ \E k \in MixedKinds : Return(k)
    \/ \E ok \in BOOLEAN : AppStudioList(ok)
    \/ \E ok \in BOOLEAN : AppStudioAdd(ok)
    \/ \E ok \in BOOLEAN : AppStudioRemove(ok)
    \/ AppStudioNext
    \/ \E ok \in BOOLEAN : CustomAppsList(ok)
    \/ \E ok \in BOOLEAN : CustomAppsGrant(ok)
    \/ CustomAppsNext
    \/ \E ok \in BOOLEAN : PublicationsList(ok)
    \/ \E ok \in BOOLEAN : PublicationsDetail(ok)
    \/ \E ok \in BOOLEAN : SubscriptionsList(ok)
    \/ \E ok \in BOOLEAN : SubscriptionsShare(ok)
    \/ \E ok \in BOOLEAN : SubscriptionsPut(ok)

SpecMixed == InitMixed /\ [][NextMixed]_vars

-----------------------------------------------------------------------------
(* The goals: getCurrentPeriod and the transfer of the goals of the current
   period, as transferContent of part_001 and as transferContent of main.js
   call them.  h[f] are the locals of function f, calls[f] the requests it
   sent, res["getCurrentPeriod"] the periods and res["transferGoals"] the
   goals of the instance, the attr of a goal being the id of its period as
   a url carries it.  No Promise.all is followed: tc = "none". *)

\* main.js lists the goals in getGoals, part_001 in transferGoals itself
GoalsFunctions(caller) ==
    IF caller = "main.js" THEN {"getCurrentPeriod", "getGoals", "transferGoals"}
    ELSE {"getCurrentPeriod", "transferGoals"}

\* the values a periodId parameter can hold
Number(n) == [type |-> "number", n |-> n]
Undefined == [type |-> "undefined", n |-> 0]
PromiseObject == [type |-> "object", n |-> 0]

\* `${periodId}`
TemplateString(v) ==
    CASE v.type = "number" -> ToString(v.n)
      [] v.type = "undefined" -> "undefined"
      [] v.type = "object" -> "[object Promise]"

\* GET objectives/profile?..&periodId=${periodId}&ownerId=${userId} is sent
ProfileRequest(f, periodId) ==
    calls' = [calls EXCEPT ![f] =
                Append(@, [op |-> "objectives/profile",
                           ids |-> <<TemplateString(periodId)>>])]

\* the answer to the profile request function f sent last: the goals of the
\* user in the period its url names
Personal(f) ==
    LET periodId == calls[f][Len(calls[f])].ids[1]
    IN  SelectSeq(OwnedBy("transferGoals", userId),
                  LAMBDA g : res["transferGoals"][g].attr = periodId)

\* GET objectives/periods?all=true answered.  response.find((period) =>
\* period.current) is undefined when no period is current and .id throws.
\* part_001: the promise of getCurrentPeriod resolves or rejects, nothing
\* awaits it.  main.js: the failure is caught and undefined returned, and
\* transferContent, which awaited the call, calls getGoals with the value.
PeriodsAnswered(ok) ==
    LET f == "getCurrentPeriod"
        current == {p \in 1..Len(res[f]) : res[f][p].attr = "current"}
        found == ok /\ current # {}
        id == CHOOSE p \in current : \A q \in current : p <= q
        value == IF found THEN Number(id) ELSE Undefined
    IN  /\ h[f].pc = "get"
        /\ IF "getGoals" \in DOMAIN h
           THEN /\ h' = [h EXCEPT ![f] = [@ EXCEPT !.pc = "done", !.items = <<value>>],
                                  !["getGoals"] = [@ EXCEPT !.pc = "list"]]
                /\ ProfileRequest("getGoals", value)
           ELSE /\ h' = [h EXCEPT ![f] =
                           IF found THEN [@ EXCEPT !.pc = "done", !.items = <<value>>]
                           ELSE [@ EXCEPT !.pc = "failed"]]
                /\ UNCHANGED calls
        /\ UNCHANGED <<userId, newOwnerId, res, lt, log, flushes, tc>>

\* part_001: the profile request of transferGoals answered
GoalsList(ok) ==
    LET f == "transferGoals"
        goals == Personal(f)
    IN  /\ "getGoals" \notin DOMAIN h
        /\ h[f].pc = "list"
        /\ IF ~ok
           THEN /\ h' = [h EXCEPT ![f] = [@ EXCEPT !.pc = "failed"]]
                /\ UNCHANGED calls
           ELSE IF Len(goals) > 0
           THEN /\ h' = [h EXCEPT ![f] = [@ EXCEPT !.items = goals, !.i = 1,
                                                   !.pc = "put"]]
                /\ Issue(f, "objectives", <<goals[1]>>)
           ELSE /\ h' = [h EXCEPT ![f] = [@ EXCEPT !.pc = "done"]]
                /\ UNCHANGED calls
        /\ UNCHANGED <<userId, newOwnerId, res, lt, log, flushes, tc>>

\* main.js: the profile request of getGoals answered; transferContent passes
\* response.personal on to transferGoals
GetGoalsAnswered(ok) ==
    LET f == "getGoals"
        goals == Personal(f)
    IN  /\ f \in DOMAIN h
        /\ h[f].pc = "list"
        /\ IF ok
           THEN IF Len(goals) > 0
                THEN /\ h' = [h EXCEPT ![f] = [@ EXCEPT !.pc = "done", !.items = goals],
                               !["transferGoals"] =
                                   [@ EXCEPT !.items = goals, !.i = 1, !.pc = "put"]]
                     /\ Issue("transferGoals", "objectives", <<goals[1]>>)
                ELSE /\ h' = [h EXCEPT ![f] = [@ EXCEPT !.pc = "done"],
                               !["transferGoals"] = [@ EXCEPT !.pc = "done"]]
                     /\ UNCHANGED calls
           ELSE /\ h' = [h EXCEPT ![f] = [@ EXCEPT !.pc = "failed"]]
                /\ UNCHANGED calls
        /\ UNCHANGED <<userId, newOwnerId, res, lt, log, flushes, tc>>

\* PUT objectives/{id} with ownerId and owners of the new owner answered.
\* After the last goal part_001 calls logTransfers, main.js returns.
GoalsPut(ok) ==
    LET f == "transferGoals"
        goals == h[f].items
    IN  /\ h[f].pc = "put"
        /\ IF ~ok
           THEN /\ h' = [h EXCEPT ![f] = [@ EXCEPT !.pc = "failed"]]
                /\ UNCHANGED <<res, calls, lt, flushes>>
           ELSE /\ res' = SetOwner(f, <<goals[h[f].i]>>, newOwnerId)
                /\ IF h[f].i < Len(goals)
                   THEN /\ h' = [h EXCEPT ![f] = [@ EXCEPT !.i = @ + 1]]
                        /\ Issue(f, "objectives", <<goals[h[f].i + 1]>>)
                        /\ UNCHANGED <<lt, flushes>>
                   ELSE IF "getGoals" \in DOMAIN h
                   THEN /\ h' = [h EXCEPT ![f] = [@ EXCEPT !.pc = "done"]]
                        /\ UNCHANGED <<calls, lt, flushes>>
                   ELSE /\ h' = [h EXCEPT ![f] = AwaitLog(@, goals, "end")]
                        /\ CallLog(f, "GOAL", goals, "TRANSFERRED", NullNotes)
                        /\ UNCHANGED calls
        /\ UNCHANGED <<userId, newOwnerId, log, tc>>

\* the periods of the instance, any number of them marked current
Periods ==
    UNION {[1..n -> [owners : {{}}, attr : {"current", "past"}]] : n \in 0..MaxPeriods}

\* the goals of the user, each in one of the periods
GoalsOf(u) ==
    UNION {[1..n -> [owners : {{u}}, attr : {ToString(p) : p \in 1..MaxPeriods}]] :
             n \in 0..MaxOwned}

\* transferContent has run up to its first await.  part_001 evaluates
\* transferGoals(userId, newOwnerId, getCurrentPeriod()): getCurrentPeriod
\* sends its request and returns its promise, and transferGoals, called with
\* that promise as periodId, sends the profile request.  main.js awaits
\* getCurrentPeriod() before it calls getGoals.
InitGoals ==
    /\ userId \in SourceUsers
    /\ newOwnerId \in NewOwners
    /\ \E caller \in {"part_001", "main.js"}, periods \in Periods, goals \in GoalsOf(userId) :
        LET F == GoalsFunctions(caller)
            periodsRequest == [op |-> "objectives/periods", ids |-> <<>>]
            profileRequest == [op |-> "objectives/profile",
                               ids |-> <<TemplateString(PromiseObject)>>]
        IN  /\ res = [f \in F |-> IF f = "getCurrentPeriod" THEN periods
                                  ELSE IF f = "transferGoals" THEN goals ELSE <<>>]
            /\ h = [f \in F |->
                      IF f = "getCurrentPeriod" THEN [Started EXCEPT !.pc = "get"]
                      ELSE IF caller = "main.js" THEN [Started EXCEPT !.pc = "wait"]
                      ELSE Started]
            /\ calls = [f \in F |->
                      IF f = "getCurrentPeriod" THEN <<periodsRequest>>
                      ELSE IF caller = "main.js" THEN <<>>
                      ELSE <<profileRequest>>]
            /\ lt = [f \in F |-> Idle]
            /\ flushes = [f \in F |-> <<>>]
    /\ log = <<>>
    /\ tc = "none"

\* (no profile request of part_001 is answered with goals, so that its
\* logTransfers call is never reached)
NextGoals ==
    \/ \E ok \in BOOLEAN : PeriodsAnswered(ok)
    \/ \E ok \in BOOLEAN : GoalsList(ok)
    \/ \E ok \in BOOLEAN : GetGoalsAnswered(ok)
    \/ \E ok \in BOOLEAN : GoalsPut(ok)

SpecGoals == InitGoals /\ [][NextGoals]_vars

-----------------------------------------------------------------------------
(* domo-product-apis-supplemental.js: updateGroupMembers(groupId, addMembers,
   removeMembers), called once.  h[f].items and h[f].page are the two input
   arrays, calls[f] holds the request with its body.  An id is a JavaScript
   value, a number or a string: getUsersByGrant casts the ids of its users
   to strings, castUserIdNumToPerson turns a number into a string, and
   r.id === m.id holds for two ids of the same type and value only. *)

\* the users a member can name, and the two representations of an id
MemberIds ==
    {[type |-> t, n |-> n] : t \in {"number", "string"}, n \in 1..MaxMembers}

\* an input array: its members are objects with an id and whatever else the
\* caller left in them
MemberLists ==
    UNION {[1..n -> [id : MemberIds, displayName : {"name"}]] : n \in 0..MaxMembers}

\* r.id === m.id
StrictEquals(a, b) == a.type = b.type /\ a.n = b.n

\* members.map((m) => ({ id: m.id, type: 'USER' }))
AsUsers(members) ==
    [j \in 1..Len(members) |-> [id |-> members[j].id, type |-> "USER"]]

\* addMembers.filter((m) => !removeMembers.some((r) => r.id === m.id))
NotRemoved(addMembers, removeMembers) ==
    SelectSeq(addMembers,
              LAMBDA m : ~\E j \in 1..Len(removeMembers) :
                             StrictEquals(removeMembers[j].id, m.id))

\* the function runs up to its await: PUT groups/access is sent
UpdateGroupMembersCalled ==
    LET f == "updateGroupMembers"
        removeMembers == AsUsers(h[f].page)
        addMembers == NotRemoved(AsUsers(h[f].items), removeMembers)
    IN  /\ h[f].pc = "call"
        /\ h' = [h EXCEPT ![f] = [@ EXCEPT !.pc = "put"]]
        /\ calls' = [calls EXCEPT ![f] =
                       Append(@, [op |-> "groups/access", ids |-> <<h[f].i>>,
                                  addMembers |-> addMembers,
                                  removeMembers |-> removeMembers])]
        /\ UNCHANGED <<userId, newOwnerId, res, lt, log, flushes, tc>>

\* PUT groups/access answered: the function returns, or the failure handleRequest
\* rethrows leaves it
UpdateGroupMembersAnswered(ok) ==
    LET f == "updateGroupMembers"
    IN  /\ h[f].pc = "put"
        /\ h' = [h EXCEPT ![f] = [@ EXCEPT !.pc = IF ok THEN "done" ELSE "failed"]]
        /\ UNCHANGED <<userId, newOwnerId, res, lt, log, flushes, calls, tc>>

InitGroupMembers ==
    /\ userId \in SourceUsers
    /\ newOwnerId \in NewOwners
    /\ \E addMembers, removeMembers \in MemberLists :
        h = [f \in {"updateGroupMembers"} |->
               [Started EXCEPT !.pc = "call", !.i = 1, !.items = addMembers,
                               !.page = removeMembers]]
    /\ res = [f \in {"updateGroupMembers"} |-> <<>>]
    /\ calls = [f \in {"updateGroupMembers"} |-> <<>>]
    /\ lt = [f \in {"updateGroupMembers"} |-> Idle]
    /\ flushes = [f \in {"updateGroupMembers"} |-> <<>>]
    /\ log = <<>>
    /\ tc = "none"

NextGroupMembers ==
    \/ UpdateGroupMembersCalled
    \/ \E ok \in BOOLEAN : UpdateGroupMembersAnswered(ok)

SpecGroupMembers == InitGroupMembers /\ [][NextGroupMembers]_vars

-----------------------------------------------------------------------------
(* domo-product-apis-supplemental.js: bulkUpdateUsersFromArrays, called once
   with the arrays ids and names (the other property arrays are read in the
   same way as names).  h[f].items and h[f].page are the two arrays,
   h[f].offset is the loop variable i, calls[f] holds the PUT requests with
   the users of their body, and res[f] the users of the instance, whose attr
   tells whether a PUT has updated them.  The transactionId of a body is a
   fresh uuid and is left out. *)

\* ids.map((id, index) => ({ id, displayName: names[index], ... })), where
\* names[index] is undefined beyond the end of names
AllUsers(ids, names) ==
    [index \in 1..Len(ids) |->
        [id |-> ids[index],
         displayName |-> IF index <= Len(names) THEN names[index] ELSE "undefined"]]

\* PUT users/bulk with the batch allUsers.slice(i, i + batchSize) is sent
BulkPut(f, i) ==
    LET allUsers == AllUsers(h[f].items, h[f].page)
        batch == SubSeq(allUsers, i + 1, Min(i + batchSize, Len(allUsers)))
    IN  calls' = [calls EXCEPT ![f] =
                    Append(@, [op |-> "users/bulk",
                               ids |-> [j \in 1..Len(batch) |-> batch[j].id],
                               users |-> batch])]

\* the function runs up to its first await
BulkUpdateCalled ==
    LET f == "bulkUpdateUsersFromArrays"
    IN  /\ h[f].pc = "call"
        /\ IF 0 < Len(h[f].items)
           THEN /\ h' = [h EXCEPT ![f] = [@ EXCEPT !.pc = "put", !.offset = 0]]
                /\ BulkPut(f, 0)
           ELSE /\ h' = [h EXCEPT ![f] = [@ EXCEPT !.pc = "done"]]
                /\ UNCHANGED calls
        /\ UNCHANGED <<userId, newOwnerId, res, lt, log, flushes, tc>>

\* (variant: the failure of a batch is swallowed and the loop goes on)
BulkUpdateAnsweredCatching(ok) ==
    LET f == "bulkUpdateUsersFromArrays"
        i == h[f].offset + batchSize
        sent == calls[f][Len(calls[f])].ids
    IN  /\ h[f].pc = "put"
        /\ res' = IF ok THEN [res EXCEPT ![f] = [u \in 1..Len(res[f]) |->
                                IF InSeq(u, sent)
                                THEN [res[f][u] EXCEPT !.attr = "updated"]
                                ELSE res[f][u]]]
                  ELSE res
        /\ IF i < Len(h[f].items)
           THEN /\ h' = [h EXCEPT ![f] = [@ EXCEPT !.offset = i]]
                /\ BulkPut(f, i)
           ELSE /\ h' = [h EXCEPT ![f] = [@ EXCEPT !.offset = i, !.pc = "done"]]
                /\ UNCHANGED calls
        /\ UNCHANGED <<userId, newOwnerId, lt, log, flushes, tc>>

\* PUT users/bulk answered: the users of the batch are updated and the next
\* batch is sent, or the failure handleRequest rethrows leaves the function
BulkUpdateAnswered(ok) ==
    LET f == "bulkUpdateUsersFromArrays"
        i == h[f].offset + batchSize
        sent == calls[f][Len(calls[f])].ids
    IN  /\ h[f].pc = "put"
        /\ IF ~ok
           THEN /\ h' = [h EXCEPT ![f] = [@ EXCEPT !.pc = "failed"]]
                /\ UNCHANGED <<res, calls>>
           ELSE /\ res' = [res EXCEPT ![f] = [u \in 1..Len(res[f]) |->
                                IF InSeq(u, sent)
                                THEN [res[f][u] EXCEPT !.attr = "updated"]
                                ELSE res[f][u]]]
                /\ IF i < Len(h[f].items)
                   THEN /\ h' = [h EXCEPT ![f] = [@ EXCEPT !.offset = i]]
                        /\ BulkPut(f, i)
                   ELSE /\ h' = [h EXCEPT ![f] = [@ EXCEPT !.offset = i, !.pc = "done"]]
                        /\ UNCHANGED calls
        /\ UNCHANGED <<userId, newOwnerId, lt, log, flushes, tc>>

\* the call: the ids 1..n of n users of the instance, with a name for each
\* or with no names
InitBulk ==
    /\ userId \in SourceUsers
    /\ newOwnerId \in NewOwners
    /\ \E n \in 0..MaxIds, named \in BOOLEAN :
        /\ h = [f \in {"bulkUpdateUsersFromArrays"} |->
                  [Started EXCEPT !.pc = "call",
                                  !.items = [j \in 1..n |-> j],
                                  !.page = IF named THEN [j \in 1..n |-> "name"]
                                           ELSE <<>>]]
        /\ res = [f \in {"bulkUpdateUsersFromArrays"} |->
                    [j \in 1..n |-> [owners |-> {}, attr |-> "-"]]]
    /\ calls = [f \in {"bulkUpdateUsersFromArrays"} |-> <<>>]
    /\ lt = [f \in {"bulkUpdateUsersFromArrays"} |-> Idle]
    /\ flushes = [f \in {"bulkUpdateUsersFromArrays"} |-> <<>>]
    /\ log = <<>>
    /\ tc = "none"

NextBulk ==
    \/ BulkUpdateCalled
    \/ \E ok \in BOOLEAN : BulkUpdateAnswered(ok)

SpecBulk == InitBulk /\ [][NextBulk]_vars

-----------------------------------------------------------------------------
(* Vocabulary of the properties *)

Flatten(batches) ==
    LET RECURSIVE Cat(_)
        Cat(j) == IF j > Len(batches) THEN <<>> ELSE batches[j] \o Cat(j + 1)
    IN  Cat(1)

\* the rows of the log dataset, in the order they were appended
LogRows == Flatten(log)

\* the type tags of the rows a handler writes
TypesOf(k) ==
    CASE k = "datasets" -> {"DATA_SOURCE"}
      [] k = "cards" -> {"CARD"}
      [] k = "alerts" -> {"ALERT"}
      [] k = "groups" -> {"GROUP"}
      [] k = "functions" -> {"BEAST_MODE_FORMULA", "VARIABLE"}
      [] k = "publications" -> {"PUBLICATION"}
      [] k = "approvals" -> {"APPROVAL"}
      [] k = "projects" -> {"PROJECT_TASK", "PROJECT"}
      [] k = "dataflows" -> {"DATAFLOW_TYPE"}
      [] k = "collections" -> {"COLLECTION"}
      [] k = "customApps" -> {"APP"}
      [] k = "pages" -> {"PAGE"}
      [] k = "appStudio" -> {"DATA_APP"}
      [] k = "accounts" -> {"ACCOUNT"}

\* the positions of the rows written for resource id of the kind of handler k
RowsOf(k, id) ==
    {j \in 1..Len(LogRows) : LogRows[j][3] \in TypesOf(k) /\ LogRows[j][4] = id}

\* every batch handler k handed to appendToDataset was committed
Committed(k) == \A j \in 1..Len(flushes[k]) : InSeq(flushes[k][j], log)

Finished(k) == h[k].pc \in {"done", "failed"}

\* handler k issued an ownership-mutation request naming id
Called(k, id) == \E j \in 1..Len(calls[k]) : InSeq(id, calls[k][j].ids)

-----------------------------------------------------------------------------
(* C1 .. C10 *)

\* C1 (as claimed): when transferContent completes without error, every
\* card, group and function the user owned at the start (all of them, in
\* this model) is owned by newOwnerId.
C1_AllTransferred ==
    tc = "resolved" =>
        \A k \in {"cards", "groups", "functions"} :
            \A i \in 1..Len(res[k]) : newOwnerId \in res[k][i].owners

\* C2 (as claimed): when the handler of one kind has thrown and nothing runs
\* any more, the handler of every other kind has run to completion.
C2_OtherKindsComplete ==
    ( /\ \E k \in Handlers : h[k].pc = "failed"
      /\ \A k \in Handlers : h[k].pc \in {"wait", "done", "failed"} )
    => \A k \in Handlers : h[k].pc \in {"done", "failed"}

\* C3 (as claimed): transferContent never rejects towards its caller,
\* whichever requests of its handlers fail.
C3_NeverRejects == tc # "rejected"

\* C4 (as claimed): once transferContent has settled, every handler has
\* finished, so no request of the run is outstanding or still to come.
C4_SettledMeansFinished ==
    tc # "pending" => \A k \in Handlers : Finished(k)

\* C5 (as claimed): once a handler has finished, and none of its appends
\* was lost, every id it issued an ownership-mutation request for has a row
\* in the log.
C5_AttemptsLogged ==
    \A k \in Handlers :
        (Finished(k) /\ Committed(k)) =>
            \A id \in 1..Len(res[k]) : Called(k, id) => RowsOf(k, id) # {}

\* the resources the handlers do not transfer: the publications of the user
\* and the approvals sent back
Unsupported(k, id) ==
    \/ k = "publications" /\ userId \in res[k][id].owners
    \/ k = "approvals" /\ res[k][id].attr = "SENTBACK"

\* the unsupported resource was found by the enumeration of its handler
Found(k, id) ==
    IF k = "publications" THEN InSeq(id, h[k].items) ELSE InSeq(id, h[k].page)

\* C6 (as claimed): an unsupported resource its handler has found is never
\* named by an ownership-mutation request and, once the handler has finished
\* with none of its appends lost, has exactly one row in the log, of status
\* NOT_TRANSFERRED and with a note.
C6_AlwaysRecorded ==
    \A k \in {"publications", "approvals"} : \A id \in 1..Len(res[k]) :
        (Unsupported(k, id) /\ Found(k, id)) =>
            /\ ~Called(k, id)
            /\ (Finished(k) /\ Committed(k)) =>
                  /\ Cardinality(RowsOf(k, id)) = 1
                  /\ \A j \in RowsOf(k, id) :
                        /\ LogRows[j][6] = "NOT_TRANSFERRED"
                        /\ Len(LogRows[j]) >= 7
                        /\ LogRows[j][7] \notin {"", "null"}

\* C7: the answer to an append request, failure or not, never makes the
\* handler that awaits logTransfers fail: it stays in logTransfers or resumes
\* where it awaited it, transferContent does not settle by it, and no
\* ownership or mutation request is undone.
C7_AppendNeverRaises ==
    [][ \A k \in Handlers :
          (h[k].pc = "log" /\ (h'[k] # h[k] \/ lt'[k] # lt[k])) =>
              /\ h'[k].pc \in {"log", h[k].ret}
              /\ tc' = tc
              /\ calls' = calls
              /\ res' = res ]_vars

\* the append of the beast modes of a page was lost, and the functions
\* handler went on to transfer the variables of the page and returned
C7_Witness ==
    /\ \E j \in 1..Len(flushes["functions"]) :
          /\ flushes["functions"][j][1][3] = "BEAST_MODE_FORMULA"
          /\ ~InSeq(flushes["functions"][j], log)
    /\ \E j \in 1..Len(calls["functions"]) :
          j >= 2 /\ calls["functions"][j].ids # <<>>
    /\ h["functions"].pc = "done"
    /\ tc = "resolved"

\* C8: when a logTransfers call with n ids has returned, it has flushed
\* ceil(n / 50) batches, each but the last of 50 lines and the last of 1 to
\* 50, and the flushed lines are the lines of the ids in the order given.
C8_Batching ==
    \A k \in Handlers :
        (h[k].ret = "end" /\ h[k].pc \in {"end", "done"}) =>
            LET f == flushes[k]
                n == Len(h[k].items)
            IN  /\ Len(f) = (n + 49) \div 50
                /\ \A j \in 1..Len(f) :
                      IF j < Len(f) THEN Len(f[j]) = 50
                      ELSE Len(f[j]) >= 1 /\ Len(f[j]) <= 50
                /\ Len(Flatten(f)) = n
                /\ \A j \in 1..n : Flatten(f)[j][4] = h[k].items[j]

C8_Witness ==
    \E k \in Handlers :
        /\ h[k].pc = "done" /\ h[k].ret = "end"
        /\ Len(h[k].items) = 125
        /\ Len(flushes[k]) = 3
        /\ Len(flushes[k][1]) = 50 /\ Len(flushes[k][2]) = 50
        /\ Len(flushes[k][3]) = 25

\* C9: every row of the log has the seven fields userId, newOwnerId, type,
\* id, date, status, notes in this order, userId and newOwnerId being the
\* parameters of the run and status TRANSFERRED or NOT_TRANSFERRED.
C9_SevenFields ==
    \A j \in 1..Len(LogRows) :
        LET row == LogRows[j]
        IN  /\ Len(row) = 7
            /\ row[1] = userId
            /\ row[2] = newOwnerId
            /\ row[3] \in UNION {TypesOf(k) : k \in Handlers}
            /\ row[4] \in 1..MaxOwned
            /\ row[5] = ISODate
            /\ row[6] \in {"TRANSFERRED", "NOT_TRANSFERRED"}
            /\ row[7] \in {"null", PublicationNotes[1], ApprovalNotes[1]}

C9_Witness ==
    /\ \E j \in 1..Len(LogRows) : LogRows[j][6] = "TRANSFERRED"
    /\ \E j \in 1..Len(LogRows) : LogRows[j][6] = "NOT_TRANSFERRED"

\* the dataset scenario: user 42 owns two datasets and nothing else, and
\* transferContent(42, 99) has completed with its appends committed
DatasetScenario ==
    /\ userId = 42 /\ newOwnerId = 99
    /\ Len(res["datasets"]) = 2
    /\ \A k \in Handlers \ {"datasets"} : Len(res[k]) = 0
    /\ tc = "resolved"
    /\ \A k \in Handlers : Committed(k)

DatasetOutcome(type) ==
    /\ \A i \in 1..2 : res["datasets"][i].owners = {99}
    /\ Len(LogRows) = 2
    /\ {LogRows[j][4] : j \in 1..2} = {1, 2}
    /\ \A j \in 1..2 : LogRows[j][3] = type /\ LogRows[j][6] = "TRANSFERRED"

-----------------------------------------------------------------------------
(* C11 .. C20 *)

\* the enumeration loop e ran and has ended
Ended(e) == h[e].pc = "done" /\ calls[e] # <<>>

\* the loops of the handlers of transferContent
KindLoops == {"transferDatasets", "transferSubscriptions", "transferAiModels",
              "transferAiProjects", "transferFunctions"}

\* C11 (as claimed): against a listing that does not change, no enumeration
\* loop yields an id twice, and a loop that has ended has yielded every id
\* of the listing, in the order of the listing.
C11_EachOnce ==
    \A e \in KindLoops :
        /\ \A i, j \in 1..Len(h[e].items) :
              h[e].items[i] = h[e].items[j] => i = j
        /\ Ended(e) => h[e].items = Ids(e)

\* the loops that send their advancing offset and end on a short page
SoundLoops == {"transferDatasets", "getUsersByGrant"}

\* C12 (as claimed): a loop that has ended has sent ceil(N / P) list requests.
C12_CeilFetches ==
    \A e \in SoundLoops :
        Ended(e) => Len(calls[e]) = (Len(res[e]) + PageSize - 1) \div PageSize

\* C12 (amended): a loop that has ended has sent floor(N / P) + 1 list
\* requests: ceil(N / P) when N is no multiple of P, and one more, answered
\* by an empty page, when N is a multiple of P, 0 included.
C12_FloorPlusOneFetches ==
    \A e \in SoundLoops :
        Ended(e) => Len(calls[e]) = (Len(res[e]) \div PageSize) + 1

\* a loop ended on a listing of two full pages: its third request was
\* answered by an empty page
C12_Witness ==
    \E e \in SoundLoops :
        /\ Ended(e)
        /\ Len(res[e]) = 2 * PageSize
        /\ Len(calls[e]) = 3
        /\ h[e].page = <<>>

\* C13 (as claimed): a loop ends only on a page shorter than the page size.
C13_EndsOnShortPage ==
    \A e \in Enumerations : Ended(e) => Len(h[e].page) < PageSize

\* C18 (as claimed, on finite runs): a loop that terminates against a backend
\* answering from the offset it is sent never sends more list requests than
\* the listing has pages, plus the two that may find the end of it.
C18_FetchesBounded ==
    \A e \in Enumerations :
        Len(calls[e]) <= (Len(res[e]) \div PageSize) + 2

\* C19 (as claimed): each list request of a loop carries an offset strictly
\* greater than the request before it.
C19_CursorAdvances ==
    \A e \in Enumerations : \A j \in 2..Len(calls[e]) :
        (calls[e][j].offset # <<>> /\ calls[e][j - 1].offset # <<>>) =>
            calls[e][j].offset[1] > calls[e][j - 1].offset[1]

\* C14 (as claimed): the second run of the transfers, for the same user and
\* the same new owner, changes nothing in the backend.
C14_SecondRunChangesNothing ==
    [][tc = "again" => res' = res]_vars

\* C15 (as claimed): no resource id has two rows in the log, and when
\* transferContent has resolved with every append committed, every id whose
\* ownership mutation succeeded has a row.
C15_OneRowPerId ==
    \A k \in Handlers : \A id \in 1..Len(res[k]) :
        /\ Cardinality(RowsOf(k, id)) <= 1
        /\ (tc = "resolved" /\ Committed(k) /\ Called(k, id)
                /\ newOwnerId \in res[k][id].owners)
           => RowsOf(k, id) # {}

\* C20 (as claimed): a line of status TRANSFERRED is handed to the log only
\* for an id whose ownership mutation has been answered with success.
C20_LoggedAfterMutation ==
    \A k \in Handlers : \A j \in 1..Len(flushes[k]) :
        \A n \in 1..Len(flushes[k][j]) :
            flushes[k][j][n][6] = "TRANSFERRED" =>
                newOwnerId \in res[k][flushes[k][j][n][4]].owners

\* C16: two packages of one name never exist: a run of the script that
\* finds the package of a definition updates it and creates no second one
\* (a tenant that starts with each package at most once keeps it so)
C16_OnePackagePerName ==
    \A i, j \in 1..Len(res.packages) :
        res.packages[i] = res.packages[j] => i = j

\* C17: the log dataset is found or created: the tenant never holds two
\* datasets named as the log dataset (it starts with at most one)
C17_OneLogDataset ==
    Len(SearchResults(LogDatasetName)) <= 1

-----------------------------------------------------------------------------
(* C21 .. C30 *)

\* a line for id was handed to the log by handler k
Handed(k, id) ==
    \E j \in 1..Len(flushes[k]) : \E n \in 1..Len(flushes[k][j]) :
        flushes[k][j][n][4] = id

\* C21 (as claimed): when a listing request of the datasets or of the cards
\* fails, every resource found on the pages answered before it is owned by
\* newOwnerId and has its line handed to the log.
C21_DiscoveredStillProcessed ==
    [][ \A k \in {"datasets", "cards"} :
          (h[k].pc = "list" /\ h'[k].pc = "failed") =>
              \A j \in 1..Len(h[k].items \o h[k].page) :
                  LET id == (h[k].items \o h[k].page)[j]
                  IN  /\ newOwnerId \in res'[k][id].owners
                      /\ Handed(k, id) ]_vars

\* C22 (as claimed): a list request that failed is the last one of its
\* enumeration, and the enumeration has thrown: it did not return.
C22_FailurePropagates ==
    \A e \in Enumerations : \A j \in 1..Len(calls[e]) :
        ~calls[e][j].ok => (j = Len(calls[e]) /\ h[e].pc = "failed")

\* the function e has gone through its loop over the enumerated ids
LoopDone(e) == h[e].pc \in {"log", "end", "done"}

\* C23 (as claimed): every ownership request of a per-item transfer names
\* exactly one enumerated id, no id is named by two requests, and when the
\* loop is through every enumerated id has been named by a request.
C23_OneCallPerItem ==
    \A e \in ItemLoops :
        /\ \A j \in 1..Len(calls[e]) :
              /\ Len(calls[e][j].ids) = 1
              /\ InSeq(calls[e][j].ids[1], h[e].items)
        /\ \A i, j \in 1..Len(calls[e]) : calls[e][i].ids = calls[e][j].ids => i = j
        /\ LoopDone(e) => \A n \in 1..Len(h[e].items) : Called(e, h[e].items[n])

\* the handlers that transfer the resources of a listing page with bulk
\* requests
BatchKinds == {"cards", "pages", "appStudio", "groups", "functions"}

\* C24 (as claimed): a bulk request always carries ids, and no two bulk
\* requests of one operation carry the same ids: a page of k ids causes one
\* request of each operation, not k.
C24_OneCallPerPage ==
    \A k \in BatchKinds :
        /\ \A j \in 1..Len(calls[k]) : calls[k][j].ids # <<>>
        /\ \A i, j \in 1..Len(calls[k]) :
              calls[k][i] = calls[k][j] => i = j

\* C25 (as claimed): when transferContent(userId, userId) has run, with
\* every handler finished, every resource (each was owned by the user at the
\* start) is still owned by the user.
C25_SelfTransferKeepsOwner ==
    (newOwnerId = userId /\ \A k \in Handlers : Finished(k)) =>
        \A k \in Handlers : \A i \in 1..Len(res[k]) : userId \in res[k][i].owners

\* the handlers of the kinds whose backend keeps a set of owners
SetKinds == {"cards", "pages", "appStudio", "groups", "accounts", "customApps"}

\* C26 (as claimed): a resource of a kind with a set of owners whose
\* transfer has succeeded (its handler has handed its TRANSFERRED line to
\* the log) no longer has the source user among its owners.
C26_OldOwnerRemoved ==
    \A k \in SetKinds : \A id \in 1..Len(res[k]) :
        Handed(k, id) => userId \notin res[k][id].owners

\* the handlers that add the new owner and remove the old one with two
\* requests, and the operations of their remove requests
AddRemoveKinds == {"cards", "pages", "appStudio", "accounts"}

IsRemove(op) ==
    op \in {"owners/remove", "pages/bulk/owners/remove",
            "dataapps/bulk/owners/remove", "accounts/share/NONE"}

\* C27: with newOwnerId different from userId, every resource of a kind
\* transferred by an add and a remove request keeps an owner among userId
\* and newOwnerId in every state; a remove request is sent only in the step
\* in which the add request of the handler is answered with success, when
\* newOwnerId owns every resource it names; a failed add sends nothing.
C27_AddBeforeRemove ==
    [][ newOwnerId # userId =>
        \A k \in AddRemoveKinds :
          /\ \A i \in 1..Len(res'[k]) :
                res'[k][i].owners \cap {userId, newOwnerId} # {}
          /\ (calls'[k] # calls[k] /\ IsRemove(calls'[k][Len(calls'[k])].op)) =>
                /\ h[k].pc = "add" /\ h'[k].pc = "remove"
                /\ \A n \in 1..Len(calls'[k][Len(calls'[k])].ids) :
                      newOwnerId \in res'[k][calls'[k][Len(calls'[k])].ids[n]].owners
          /\ (h[k].pc = "add" /\ h'[k].pc = "failed") => calls'[k] = calls[k] ]_vars

\* the pages handler has added the new owner to the pages of a listing
\* page and removed the old one, and the add request of its next iteration
\* failed: the pages are owned by newOwnerId alone and no remove followed
C27_Witness ==
    /\ newOwnerId # userId
    /\ h["pages"].pc = "failed"
    /\ Len(calls["pages"]) = 3
    /\ calls["pages"][2].op = "pages/bulk/owners/remove"
    /\ calls["pages"][3].op = "pages/bulk/owners"
    /\ \A n \in 1..Len(calls["pages"][2].ids) :
          res["pages"][calls["pages"][2].ids[n]].owners = {newOwnerId}

\* the position of the first row of the log written for resource id of the
\* kind of handler k
FirstRow(k, id) == CHOOSE j \in RowsOf(k, id) : \A n \in RowsOf(k, id) : j <= n

\* C28 (as claimed): of two resources of one kind that both have rows in the
\* log, the one the listing returns first (the one of the smaller id) has
\* its first row before the first row of the other.
C28_DiscoveryOrder ==
    \A k \in Handlers : \A a, b \in 1..Len(res[k]) :
        (a < b /\ RowsOf(k, a) # {} /\ RowsOf(k, b) # {}) =>
            FirstRow(k, a) < FirstRow(k, b)

\* batch b is made of consecutive lines of the call l of logTransfers
PieceOf(b, l) ==
    \E from \in 1..Len(l.lines) :
        /\ from + Len(b) - 1 <= Len(l.lines)
        /\ b = SubSeq(l.lines, from, from + Len(b) - 1)

\* C29: whatever the interleaving of the handlers, a batch handed to
\* appendToDataset by a handler is made of consecutive lines of the
\* logTransfers call that handler is in, all of one type of its kind, and
\* a batch that enters the log is a batch one handler handed over.
C29_OneCallPerFlush ==
    [][ /\ \A k \in Handlers :
            flushes'[k] # flushes[k] =>
                LET b == flushes'[k][Len(flushes'[k])]
                IN  /\ PieceOf(b, lt'[k])
                    /\ \A n \in 1..Len(b) : b[n][3] = b[1][3] /\ b[n][3] \in TypesOf(k)
        /\ log' # log =>
            \E k \in Handlers : \E j \in 1..Len(flushes[k]) :
                log'[Len(log')] = flushes[k][j] ]_vars

\* two handlers are inside appendToDataset at once, each with its batch, and
\* a batch of a third call is in the log already
C29_Witness ==
    \E k1, k2 \in Handlers :
        /\ k1 # k2
        /\ h[k1].pc = "log" /\ lt[k1].step = "part"
        /\ h[k2].pc = "log" /\ lt[k2].step = "commit"
        /\ lt[k1].batch # lt[k2].batch
        /\ Len(log) >= 1

\* the list requests of loop e that are sent and not answered
Outstanding(e) == h[e].i - h[e].got

\* C30: a loop never has more than one list request outstanding (it has one
\* exactly while it is suspended at its await), and it sends a request only
\* in the step in which the answer to the request before arrives.
C30_OneRequestAtATime ==
    [][ \A e \in Enumerations :
          /\ h'[e].i - h'[e].got \in {0, 1}
          /\ (h'[e].i - h'[e].got = 1) <=> (h'[e].pc = "list")
          /\ h'[e].i > h[e].i =>
                (Outstanding(e) = 1 /\ h'[e].got = h[e].got + 1 /\ h'[e].i = h[e].i + 1)
          /\ h'[e].got = Len(calls'[e]) ]_vars

\* transferDatasets has had three list requests answered, one at a time
C30_Witness ==
    /\ h["transferDatasets"].got = 3
    /\ h["transferDatasets"].i = 3
    /\ h["transferDatasets"].pc = "done"
    /\ Len(h["transferDatasets"].items) = 2 * PageSize

-----------------------------------------------------------------------------
(* C31 .. C37 *)

\* the batch handler k handed to appendToDataset last
LastFlush(f) == f[Len(f)]

\* C31 (as claimed): no request is issued a second time after it failed.  A
\* handler whose list or mutation request failed sends nothing more, and a
\* batch whose append failed (it was handed to appendToDataset and is not in
\* the log dataset) is not handed to appendToDataset again.
C31_NoRetry ==
    [][\A k \in MixedKinds :
          /\ h[k].pc = "failed" =>
                /\ h'[k] = h[k]
                /\ calls'[k] = calls[k]
                /\ flushes'[k] = flushes[k]
          /\ Len(flushes'[k]) > Len(flushes[k]) =>
                \A j \in 1..Len(flushes[k]) :
                    ~InSeq(flushes[k][j], log) =>
                        LastFlush(flushes'[k]) # flushes[k][j]]_vars

\* the type tags of the rows handler k handed to appendToDataset
TagsWritten(k) ==
    LET rows == Flatten(flushes[k])
    IN  {rows[j][3] : j \in 1..Len(rows)}

C33_OnlyOwnResources ==
    [][\A k \in MixedKinds : \A i \in 1..Len(res[k]) :
          userId \notin res[k][i].owners =>
              /\ res'[k][i] = res[k][i]
              /\ Len(calls'[k]) > Len(calls[k]) =>
                    ~InSeq(i, calls'[k][Len(calls'[k])].ids)]_vars

\* a handler has returned after it sent a mutation request for a resource
\* listed after a resource of another user, which still has its owner
C33_Witness ==
    \E k \in MixedKinds : \E i, j \in 1..Len(res[k]) :
        /\ i < j
        /\ userId \notin res[k][i].owners
        /\ Called(k, j) /\ ~Called(k, i)
        /\ h[k].pc = "done"

\* C34 (as claimed): a goals listing request has been sent only when the
\* current-period lookup has completed, and its url carries the period id
\* the lookup returned.
C34_GoalsAfterPeriod ==
    \A f \in DOMAIN calls : \A j \in 1..Len(calls[f]) :
        calls[f][j].op = "objectives/profile" =>
            /\ h["getCurrentPeriod"].pc = "done"
            /\ calls[f][j].ids = <<TemplateString(h["getCurrentPeriod"].items[1])>>

\* the j-th run of BATCH_SIZE consecutive lines
Slice(lines, j) ==
    SubSeq(lines, BATCH_SIZE * (j - 1) + 1, Min(BATCH_SIZE * j, Len(lines)))

\* the position among the batches handler k flushed of batch b
FlushOf(k, b) == CHOOSE i \in 1..Len(flushes[k]) : flushes[k][i] = b

\* C35: whatever flushes failed, the j-th batch logTransfers hands to
\* appendToDataset is the j-th run of BATCH_SIZE lines of the call (no line
\* of a failed batch is flushed again, no later batch is skipped or
\* reordered), the call returns only after the batch holding its last line
\* was attempted, and the log dataset holds flushed batches in flush order.
C35_FailedFlushLosesOwnBatch ==
    \A k \in Handlers :
        /\ \A j \in 1..Len(flushes[k]) : flushes[k][j] = Slice(lt[k].lines, j)
        /\ h[k].pc \in {"end", "done"} =>
              Len(flushes[k]) * BATCH_SIZE >= Len(lt[k].lines)
        /\ lt[k].lines # <<>> =>
              /\ \A j \in 1..Len(log) : InSeq(log[j], flushes[k])
              /\ \A i, j \in 1..Len(log) :
                    i < j => FlushOf(k, log[i]) < FlushOf(k, log[j])

\* a call of three batches has returned: the flush of the second failed,
\* the first and the third are in the log dataset
C35_Witness ==
    \E k \in Handlers :
        /\ h[k].pc = "done"
        /\ Len(flushes[k]) = 3
        /\ log = <<flushes[k][1], flushes[k][3]>>

\* the user an id names: 5 and "5" are the same user
UserOf(id) == id.n

UsersIn(members) == {UserOf(members[j].id) : j \in 1..Len(members)}

\* C36 (as claimed): in the body of the request no user is in addMembers and
\* in removeMembers, removeMembers holds every input member to remove, and
\* addMembers holds, in input order, the input members to add that are not
\* to be removed.
C36_NeverInBothLists ==
    LET f == "updateGroupMembers"
    IN  \A j \in 1..Len(calls[f]) :
            LET body == calls[f][j]
            IN  /\ UsersIn(body.addMembers) \cap UsersIn(body.removeMembers) = {}
                /\ body.removeMembers = AsUsers(h[f].page)
                /\ body.addMembers =
                      SelectSeq(AsUsers(h[f].items),
                                LAMBDA m : UserOf(m.id) \notin UsersIn(h[f].page))

\* the users the call was given, with the names at their indices
InputUsers(f) ==
    [j \in 1..Len(h[f].items) |->
        [id |-> h[f].items[j],
         displayName |-> IF j <= Len(h[f].page) THEN h[f].page[j] ELSE "undefined"]]

\* the j-th run of 50 consecutive elements of s
Run50(s, j) == SubSeq(s, 50 * (j - 1) + 1, Min(50 * j, Len(s)))

\* C37: the j-th PUT carries the j-th run of 50 input users, in input order;
\* a PUT is sent only after every PUT before it was answered with success;
\* when the function has returned, the runs sent cover every input user;
\* after a failure nothing more is sent.
C37_EveryUserOnce ==
    LET f == "bulkUpdateUsersFromArrays"
        sent == Len(calls[f])
    IN  /\ \A j \in 1..sent : calls[f][j].users = Run50(InputUsers(f), j)
        /\ \A j \in 1..(sent - 1) : \A u \in 1..Len(calls[f][j].ids) :
              res[f][calls[f][j].ids[u]].attr = "updated"
        /\ h[f].pc = "done" =>
              /\ 50 * sent >= Len(h[f].items)
              /\ \A u \in 1..Len(res[f]) : res[f][u].attr = "updated"
        /\ h[f].pc = "failed" =>
              \A u \in 1..Len(calls[f][sent].ids) :
                  res[f][calls[f][sent].ids[u]].attr = "-"

\* three batches were sent for more than 100 users and the function has
\* returned
C37_Witness ==
    LET f == "bulkUpdateUsersFromArrays"
    IN  /\ h[f].pc = "done"
        /\ Len(calls[f]) = 3
        /\ Len(calls[f][3].users) < 50

====
